---- MODULE Spec2Model ----
(***************************************************************************)
(* Model of claude-relay-service:                                          *)
(*   - DatabaseService (validateApiKey, recordUsage) over the shared       *)
(*     SQLite tables tokens / users / credits / usage_logs / usage_daily;  *)
(*   - SecurityUtils.isValidApiKeyFormat and constantTimeCompare.          *)
(* Each group of operations has its own specification over its own         *)
(* variables; the variables of the other groups stay at their initial      *)
(* values.                                                                 *)
(***************************************************************************)
EXTENDS Integers, Sequences, FiniteSets, TLC

VARIABLES
  db,           \* DatabaseService.db: FALSE = null, TRUE = an open connection
  today,        \* the current UTC day, new Date().toISOString().split('T')[0]
  credits,      \* table credits: user_id -> balance, for the users that have a row
  credits0,     \* the credits table as it was when the service started (history)
  usage_logs,   \* table usage_logs, in insertion order
  usage_daily,  \* table usage_daily: <<user_id, date>> -> row
  calls,        \* the recordUsage invocations: one frame per caller
  usageRet,     \* how the last DatabaseService call on the usage path ended
  now,          \* the clock datetime('now') reads
  last_used,    \* column tokens.last_used: token id -> time, Never for NULL
  immediates,   \* the setImmediate queue: the token ids whose update is scheduled
  authRet,      \* the last validateApiKey call: its argument, path and return value
  keyCall,      \* the isValidApiKeyFormat call: its argument and return value
  cmpCall,      \* the constantTimeCompare call: arguments, return value, steps taken
  hashCall,     \* a hashApiKey call, then a verifyApiKey call and a second hashApiKey call
  attempts,     \* RateLimiter.attempts: identifier -> the timestamps recorded
  clock,        \* the clock Date.now() reads, in milliseconds
  limitRet,     \* the last RateLimiter call: operation, identifier, value returned
  limitHist,    \* per identifier: what its caller has done since the record was new
  pathCall,     \* the validatePath call: argument and return value
  sanCall,      \* the sanitizeInput call: arguments and return value
  healthStatus, \* MonitoringService.healthStatus: healthy and each service's healthy
  requests,     \* MonitoringService.metrics.requests: total, success and failed
  thresholds,   \* MonitoringService.memoryThreshold and heapThreshold, in percent
  runs,         \* the performHealthCheck invocations: one frame per caller
  httpRet,      \* the last response of the health router
  redisDone,    \* how the Redis check that completed last ended (history)
  cfgCall,      \* a load of the production configuration: environment and outcome
  apiKeys,      \* MonitoringService.metrics.apiKeys: validated, failed, cached
  errors,       \* MonitoringService.metrics.errors: error key -> what the Map holds
  errorSeen,    \* error key -> the hour recordRequest last counted it (history)
  lastReset,    \* MonitoringService.lastReset: NoReset or the day of the last reset
  epochHour,    \* the wall clock: whole hours since the epoch
  metricRet,    \* the last call on the metrics: operation and what it did (history)
  intervals,    \* MonitoringService.intervals: task -> NoTimer or a timer id
  timers,       \* the interval timers that are set and not cleared: id -> task
  starts,       \* the start() calls that have set their intervals
  stopped,      \* stop() has returned and start() was not called since (history)
  keysRet       \* the last getAllApiKeys call: its path and the rows returned

usageVars == <<db, today, credits, credits0, usage_logs, usage_daily, calls, usageRet>>
authVars == <<now, last_used, immediates, authRet>>

keyVars == <<keyCall>>
cmpVars == <<cmpCall>>

hashVars == <<hashCall>>
limitVars == <<attempts, clock, limitRet, limitHist>>
pathVars == <<pathCall>>
sanVars == <<sanCall>>

\* the variables of DatabaseService, isValidApiKeyFormat and constantTimeCompare
coreVars == <<usageVars, authVars, keyVars, cmpVars>>
\* the variables of the other operations
monVars == <<healthStatus, requests, thresholds, runs, httpRet, redisDone>>
cfgVars == <<cfgCall>>
metricVars == <<apiKeys, errors, errorSeen, lastReset, epochHour, metricRet>>
timerVars == <<intervals, timers, starts, stopped>>
listVars == <<keysRet>>
\* the variables of the metrics, the timers and getAllApiKeys
svcVars == <<metricVars, timerVars, listVars>>
restVars == <<hashVars, limitVars, pathVars, sanVars, monVars, cfgVars, svcVars>>

vars == <<coreVars, restVars>>

(***************************************************************************)
(* Bounds of the model.                                                    *)
(***************************************************************************)
MaxLogs == 2          \* rows recordUsage may add to usage_logs
MaxDay == 1           \* days the clock may advance
StartBalance == 3     \* largest balance of a credits row when the service starts
MaxTime == 2          \* ticks of the clock datetime('now') reads
MaxPending == 2       \* setImmediate callbacks that may be queued at once
Edge == 1             \* key lengths tried on each side of a length limit
MaxCmpLen == 2        \* characters of a string given to constantTimeCompare
MaxHashKeyLen == 2    \* characters of a key given to hashApiKey
MaxTicks == 3         \* steps the clock of the rate limiter may advance
MaxRecorded == 3      \* timestamps one identifier's record may hold
MaxPathLen == 5       \* characters of a path given to validatePath
MaxInputLen == 2      \* characters of a string given to sanitizeInput
MaxRequests == 1      \* requests recordRequest may add to the counters
EarlierRequests == 9  \* successful requests counted before the model starts
MaxCounted == 2       \* requests and key validations the metrics specification counts
MaxHours == 26        \* hours the wall clock may advance
MaxStarts == 2        \* start() calls that may set their intervals
FirstDay == 20000     \* the wall clock starts an hour before this day begins

Users == {1, 2}
CallIds == {1, 2}

Max(a, b) == IF a >= b THEN a ELSE b

(***************************************************************************)
(* usageData objects: a field that is absent from the object is absent     *)
(* from the function's domain (JavaScript undefined).                      *)
(***************************************************************************)
CountFields == {"inputTokens", "outputTokens", "cacheCreationTokens", "cacheReadTokens"}

FullUsage ==
  [inputTokens |-> 1, outputTokens |-> 2, cacheCreationTokens |-> 4,
   cacheReadTokens |-> 8, cost |-> 2]

FieldSets ==
  { {}, {"inputTokens"}, {"cost"}, {"outputTokens", "cacheReadTokens", "cost"},
    CountFields \cup {"cost"} }

UsageInputs ==
  { [f \in fs \cup {"userId"} |-> IF f = "userId" THEN u ELSE FullUsage[f]] :
      fs \in FieldSets, u \in Users }

\* the usage reports the specification of the degraded service records
DegradeInputs ==
  { data \in UsageInputs :
      data["userId"] = 1 /\ DOMAIN data = DOMAIN FullUsage \cup {"userId"} }

\* the keys it validates: one that was issued and one that was not
DegradeKeys == {1, 3}

\* const { inputTokens = 0, ... } = usageData: the default applies to a missing field
FieldOr(data, f, d) == IF f \in DOMAIN data THEN data[f] ELSE d

TotalTokens_NoCacheRead(inputTokens, outputTokens, cacheCreationTokens, cacheReadTokens) ==
  inputTokens + outputTokens + cacheCreationTokens

TotalTokens(inputTokens, outputTokens, cacheCreationTokens, cacheReadTokens) ==
  inputTokens + outputTokens + cacheCreationTokens + cacheReadTokens

\* the row insertUsageLog.run(...) writes; created_day is the day of the insert
LogRow(data, day) ==
  LET i  == FieldOr(data, "inputTokens", 0)
      o  == FieldOr(data, "outputTokens", 0)
      cc == FieldOr(data, "cacheCreationTokens", 0)
      cr == FieldOr(data, "cacheReadTokens", 0)
  IN [user_id |-> data["userId"],
      input_tokens |-> i, output_tokens |-> o,
      cache_creation_tokens |-> cc, cache_read_tokens |-> cr,
      total_tokens |-> TotalTokens(i, o, cc, cr),
      cost |-> FieldOr(data, "cost", 0),
      created_day |-> day]

DailyUpsert_Overwrite(daily, row) ==
  [k \in DOMAIN daily \cup {<<row.user_id, row.created_day>>} |->
     IF k = <<row.user_id, row.created_day>>
       THEN [total_input_tokens |-> row.input_tokens,
             total_output_tokens |-> row.output_tokens,
             total_cache_creation_tokens |-> row.cache_creation_tokens,
             total_cache_read_tokens |-> row.cache_read_tokens,
             total_cost |-> row.cost,
             request_count |-> 1]
       ELSE daily[k]]

\* updateDailyUsage: INSERT ... ON CONFLICT(user_id, date) DO UPDATE SET x = x + excluded.x
DailyUpsert(daily, row) ==
  LET key == <<row.user_id, row.created_day>>
      ins == [total_input_tokens |-> row.input_tokens,
              total_output_tokens |-> row.output_tokens,
              total_cache_creation_tokens |-> row.cache_creation_tokens,
              total_cache_read_tokens |-> row.cache_read_tokens,
              total_cost |-> row.cost,
              request_count |-> 1]
  IN IF key \in DOMAIN daily
       THEN [daily EXCEPT ![key] =
               [total_input_tokens |-> @.total_input_tokens + ins.total_input_tokens,
                total_output_tokens |-> @.total_output_tokens + ins.total_output_tokens,
                total_cache_creation_tokens |->
                    @.total_cache_creation_tokens + ins.total_cache_creation_tokens,
                total_cache_read_tokens |->
                    @.total_cache_read_tokens + ins.total_cache_read_tokens,
                total_cost |-> @.total_cost + ins.total_cost,
                request_count |-> @.request_count + ins.request_count]]
       ELSE [k \in DOMAIN daily \cup {key} |-> IF k = key THEN ins ELSE daily[k]]

NewBalance_NoClamp(balance, cost) == balance - cost

\* const newBalance = Math.max(0, credits.balance - cost)
NewBalance(balance, cost) == Max(0, balance - cost)

\* updateCreditsBalance.run(newBalance, userId), inside if (credits)
CreditsAfter(cr, frame) ==
  IF frame.hasCredits
    THEN [cr EXCEPT ![frame.row.user_id] = NewBalance(frame.balance, frame.row.cost)]
    ELSE cr

IdleFrame ==
  [pc |-> "idle", row |-> LogRow([userId |-> 0], 0), hasCredits |-> FALSE, balance |-> 0,
   data |-> [userId |-> 0]]

NoWriteLock == TRUE

\* db.transaction(...): the statements of one call run between BEGIN and COMMIT with
\* the write lock held (and, in one process, synchronously: no await in the body), so
\* a transaction starts only while no other one is open.
WriteLockFree == \A c \in CallIds : calls[c].pc = "idle"

(***************************************************************************)
(* Operations of the usage path.                                           *)
(***************************************************************************)
\* initialize(): opens the database when the file is found and the connection works
initialize(found) ==
  /\ db' = (db \/ found)
  /\ usageRet' = [op |-> "initialize", path |-> IF found THEN "opened" ELSE "not-found",
                  threw |-> FALSE]
  /\ UNCHANGED <<today, credits, credits0, usage_logs, usage_daily, calls>>
  /\ UNCHANGED <<authVars, keyVars, cmpVars, restVars>>

\* the wall clock passes midnight (UTC)
AdvanceDay ==
  /\ today < MaxDay
  /\ today' = today + 1
  /\ usageRet' = [op |-> "clock", path |-> "midnight", threw |-> FALSE]
  /\ UNCHANGED <<db, credits, credits0, usage_logs, usage_daily, calls>>
  /\ UNCHANGED <<authVars, keyVars, cmpVars, restVars>>

\* recordUsage with this.db === null: returns at once
recordUsage_NoDb(c, data) ==
  /\ ~db
  /\ calls[c].pc = "idle"
  /\ usageRet' = [op |-> "recordUsage", path |-> "no-db", threw |-> FALSE]
  /\ UNCHANGED <<db, today, credits, credits0, usage_logs, usage_daily, calls>>
  /\ UNCHANGED <<authVars, keyVars, cmpVars, restVars>>

\* recordUsage up to getUserCredits.get(userId): the insert and the daily upsert are
\* written inside the transaction (visible to others at COMMIT), the balance is read
recordUsage_Begin(c, data) ==
  /\ db
  /\ calls[c].pc = "idle"
  /\ WriteLockFree
  /\ Len(usage_logs) < MaxLogs
  /\ calls' = [calls EXCEPT ![c] =
                 [pc |-> "read",
                  row |-> LogRow(data, today),
                  hasCredits |-> data["userId"] \in DOMAIN credits,
                  balance |-> IF data["userId"] \in DOMAIN credits
                                THEN credits[data["userId"]] ELSE 0,
                  data |-> data]]
  /\ usageRet' = [op |-> "recordUsage", path |-> "in-transaction", threw |-> FALSE]
  /\ UNCHANGED <<db, today, credits, credits0, usage_logs, usage_daily>>
  /\ UNCHANGED <<authVars, keyVars, cmpVars, restVars>>

\* BEGIN, the insert, the upsert or the select throws (a constraint, SQLITE_BUSY
\* while another connection holds the write lock, ...): nothing was written outside
\* the transaction, the catch block logs the error
recordUsage_Throws(c, data) ==
  /\ db
  /\ calls[c].pc = "idle"
  /\ usageRet' = [op |-> "recordUsage", path |-> "caught", threw |-> FALSE]
  /\ UNCHANGED <<db, today, credits, credits0, usage_logs, usage_daily, calls>>
  /\ UNCHANGED <<authVars, keyVars, cmpVars, restVars>>

\* the rest of the transaction: the balance update and COMMIT
recordUsage_Commit(c) ==
  /\ calls[c].pc = "read"
  /\ usage_logs' = Append(usage_logs, calls[c].row)
  /\ usage_daily' = DailyUpsert(usage_daily, calls[c].row)
  /\ credits' = CreditsAfter(credits, calls[c])
  /\ calls' = [calls EXCEPT ![c] = IdleFrame]
  /\ usageRet' = [op |-> "recordUsage", path |-> "committed", threw |-> FALSE]
  /\ UNCHANGED <<db, today, credits0>>
  /\ UNCHANGED <<authVars, keyVars, cmpVars, restVars>>

recordUsage_Rollback_KeepsLog(c) ==
  /\ calls[c].pc = "read"
  /\ usage_logs' = Append(usage_logs, calls[c].row)
  /\ calls' = [calls EXCEPT ![c] = IdleFrame]
  /\ usageRet' = [op |-> "recordUsage", path |-> "caught", threw |-> FALSE]
  /\ UNCHANGED <<db, today, credits, credits0, usage_daily>>
  /\ UNCHANGED <<authVars, keyVars, cmpVars, restVars>>

\* a statement of the transaction throws: better-sqlite3 rolls the transaction back,
\* the catch block logs the error
recordUsage_Rollback(c) ==
  /\ calls[c].pc = "read"
  /\ calls' = [calls EXCEPT ![c] = IdleFrame]
  /\ usageRet' = [op |-> "recordUsage", path |-> "caught", threw |-> FALSE]
  /\ UNCHANGED <<db, today, credits, credits0, usage_logs, usage_daily>>
  /\ UNCHANGED <<authVars, keyVars, cmpVars, restVars>>

(***************************************************************************)
(* The key path: tables tokens and users (written by the user-management   *)
(* service, read here) and validateApiKey.                                 *)
(***************************************************************************)
Never == -1

\* the plaintext keys callers present; 1 and 2 were issued, 3 was not
ApiKeys == {1, 2, 3}

\* crypto.createHash('sha256').update(apiKey).digest('hex'): injective on ApiKeys
Sha256(apiKey) == 100 + 7 * apiKey

\* table tokens (without last_used); column token holds the hash of the key
TokensTable ==
  { [id |-> 11, token |-> Sha256(1), user_id |-> 1, name |-> "laptop"],
    [id |-> 12, token |-> Sha256(2), user_id |-> 2, name |-> "ci"] }

TokenIds == { t.id : t \in TokensTable }

\* table users: every token's user_id is the id of a users row
UsersTable ==
  [u \in Users |-> [email |-> <<"user", u, "@example.com">>, name |-> <<"user", u>>]]

HashedToken_Plain(apiKey) == apiKey

\* const hashedToken = crypto.createHash('sha256').update(apiKey).digest('hex')
HashedToken(apiKey) == Sha256(apiKey)

\* statements.getTokenByHash: tokens JOIN users LEFT JOIN credits WHERE t.token = ?
getTokenByHash(hashedToken) ==
  { [id |-> t.id, user_id |-> t.user_id, name |-> t.name,
     last_used |-> last_used[t.id],
     user_email |-> UsersTable[t.user_id].email,
     user_name |-> UsersTable[t.user_id].name,
     has_credits |-> t.user_id \in DOMAIN credits,
     credits_balance |-> IF t.user_id \in DOMAIN credits THEN credits[t.user_id] ELSE 0] :
    t \in { x \in TokensTable : x.token = hashedToken /\ x.user_id \in DOMAIN UsersTable } }

\* tokenInfo.credits_balance is truthy: not NULL and not 0
HasBalance(tokenInfo) == tokenInfo.has_credits /\ tokenInfo.credits_balance # 0

\* the object validateApiKey returns for a row; dailyCostLimit is kept in hundredths
\* (credits_balance / 100 is credits_balance hundredths, the default 10 is 1000)
RelayFormat(tokenInfo) ==
  [found |-> TRUE,
   id |-> <<"db_", tokenInfo.id>>,
   userId |-> tokenInfo.user_id,
   name |-> tokenInfo.name,
   userEmail |-> tokenInfo.user_email,
   userName |-> tokenInfo.user_name,
   active |-> TRUE,
   lastUsed |-> tokenInfo.last_used,
   creditsBalance |-> IF HasBalance(tokenInfo) THEN tokenInfo.credits_balance ELSE 0,
   dailyCostLimit |-> IF HasBalance(tokenInfo) THEN tokenInfo.credits_balance ELSE 1000]

\* return null
NoRecord == [found |-> FALSE]

AuthRetOf(apiKey, path, result) ==
  [key |-> apiKey, path |-> path, result |-> result, seq |-> 1 - authRet.seq]

validateApiKey_AwaitsUpdate(apiKey, throws) ==
  /\ db /\ ~throws
  /\ getTokenByHash(HashedToken(apiKey)) # {}
  /\ LET tokenInfo == CHOOSE r \in getTokenByHash(HashedToken(apiKey)) : TRUE IN
       /\ last_used' = [last_used EXCEPT ![tokenInfo.id] = now]
       /\ authRet' = AuthRetOf(apiKey, "hit", RelayFormat(tokenInfo))
  /\ UNCHANGED <<usageVars, keyVars, cmpVars, restVars, now, immediates>>

\* validateApiKey(apiKey); throws: the lookup raises and the catch block returns null
validateApiKey(apiKey, throws) ==
  /\ IF ~db
       THEN /\ authRet' = AuthRetOf(apiKey, "no-db", NoRecord)
            /\ UNCHANGED immediates
       ELSE IF throws
         THEN /\ authRet' = AuthRetOf(apiKey, "caught", NoRecord)
              /\ UNCHANGED immediates
         ELSE IF getTokenByHash(HashedToken(apiKey)) = {}
           THEN /\ authRet' = AuthRetOf(apiKey, "miss", NoRecord)
                /\ UNCHANGED immediates
           ELSE LET tokenInfo == CHOOSE r \in getTokenByHash(HashedToken(apiKey)) : TRUE IN
                  /\ Len(immediates) < MaxPending
                  /\ immediates' = Append(immediates, tokenInfo.id)
                  /\ authRet' = AuthRetOf(apiKey, "hit", RelayFormat(tokenInfo))
  /\ UNCHANGED <<usageVars, keyVars, cmpVars, restVars, now, last_used>>

\* stmt.all() of getAllApiKeys: tokens JOIN users (the order of the rows is left out)
AllApiKeys ==
  { [id |-> t.id, token_hash |-> t.token, user_id |-> t.user_id, name |-> t.name,
     user_email |-> UsersTable[t.user_id].email] :
    t \in { x \in TokensTable : x.user_id \in DOMAIN UsersTable } }

\* getAllApiKeys(); throws: prepare or all raises and the catch block returns []
getAllApiKeys(throws) ==
  /\ keysRet' = IF ~db THEN [path |-> "no-db", rows |-> {}]
                ELSE IF throws THEN [path |-> "caught", rows |-> {}]
                ELSE [path |-> "rows", rows |-> AllApiKeys]
  /\ UNCHANGED <<coreVars, hashVars, limitVars, pathVars, sanVars, monVars, cfgVars>>
  /\ UNCHANGED <<metricVars, timerVars>>

\* the setImmediate callback: updateLastUsed.run(tokenInfo.id); an error is logged
RunImmediate(fails) ==
  /\ immediates # <<>>
  /\ immediates' = Tail(immediates)
  /\ last_used' = IF fails THEN last_used
                  ELSE [last_used EXCEPT ![Head(immediates)] = now]
  /\ UNCHANGED <<usageVars, keyVars, cmpVars, restVars, now, authRet>>

\* time passes
Tick ==
  /\ now < MaxTime
  /\ now' = now + 1
  /\ UNCHANGED <<usageVars, keyVars, cmpVars, restVars, last_used, immediates, authRet>>

AuthInit ==
  /\ now = 0
  /\ last_used = [t \in TokenIds |-> Never]
  /\ immediates = <<>>
  /\ authRet = [key |-> 0, path |-> "none", result |-> NoRecord, seq |-> 0]

(***************************************************************************)
(* JavaScript values given to SecurityUtils: a string is its sequence of    *)
(* UTF-16 code units, any other value only its typeof.                     *)
(***************************************************************************)
Str(chars) == [type |-> "string", chars |-> chars]
NonStrings == { [type |-> t, chars |-> <<>>] : t \in {"undefined", "object", "number"} }

\* the code units of 'sk_', 'cr_', 'pk_'
ValidPrefixes == { <<115, 107, 95>>, <<99, 114, 95>>, <<112, 107, 95>> }

\* apiKey.startsWith(prefix)
StartsWith(chars, prefix) ==
  Len(chars) >= Len(prefix) /\ SubSeq(chars, 1, Len(prefix)) = prefix

\* [a-zA-Z0-9_]
IsWordChar(c) ==
  \/ c \in 97..122
  \/ c \in 65..90
  \/ c \in 48..57
  \/ c = 95

\* /^[a-zA-Z0-9_]+$/.test(keyPart)
RegexWordPlus(chars) ==
  Len(chars) >= 1 /\ \A i \in 1..Len(chars) : IsWordChar(chars[i])

MinKeyLength == 20
MaxKeyLength == 256
PrefixLength == 3

LengthAllowed_Exclusive(n) == ~(n < MinKeyLength \/ n >= MaxKeyLength)

\* not (apiKey.length < 20 || apiKey.length > 256)
LengthAllowed(n) == ~(n < MinKeyLength \/ n > MaxKeyLength)

\* SecurityUtils.isValidApiKeyFormat(apiKey)
isValidApiKeyFormat(apiKey) ==
  IF apiKey.type # "string" \/ apiKey.chars = <<>> THEN FALSE
  ELSE IF ~LengthAllowed(Len(apiKey.chars)) THEN FALSE
  ELSE IF ~(\E prefix \in ValidPrefixes : StartsWith(apiKey.chars, prefix)) THEN FALSE
  ELSE IF ~RegexWordPlus(SubSeq(apiKey.chars, PrefixLength + 1, Len(apiKey.chars)))
    THEN FALSE
  ELSE TRUE

\* the strings tried: a prefix (valid, nearly valid or too short), then a body of
\* letters 'a' with one other character first or last, of a length at a limit
TriedPrefixes ==
  ValidPrefixes \cup
    { <<>>, <<115>>, <<115, 107>>, <<115, 107, 45>>, <<83, 75, 95>>, <<97, 107, 95>>,
      <<95, 115, 107>> }
TriedChars ==
  { 97, 122, 65, 90, 48, 57, 95, 45, 10, 32, 47, 58, 64, 91, 96, 123, 233 }
TriedBodyLengths ==
  { n \in 0..(MaxKeyLength + Edge) :
      \/ n <= Edge
      \/ n \in (MinKeyLength - PrefixLength - Edge)..(MinKeyLength - PrefixLength + Edge)
      \/ n \in (MaxKeyLength - PrefixLength - Edge)..(MaxKeyLength - PrefixLength + Edge)
      \/ n \in (MaxKeyLength - Edge)..(MaxKeyLength + Edge) }
Body(n, c, last) == [i \in 1..n |-> IF i = (IF last THEN n ELSE 1) THEN c ELSE 97]
KeyInputs ==
  NonStrings \cup
    { Str(p \o Body(n, c, last)) :
        p \in TriedPrefixes, n \in TriedBodyLengths, c \in TriedChars, last \in BOOLEAN }

\* the caller's call returns
isValidApiKeyFormat_Call ==
  /\ ~keyCall.done
  /\ keyCall' = [keyCall EXCEPT !.done = TRUE, !.ret = isValidApiKeyFormat(keyCall.arg)]
  /\ UNCHANGED <<usageVars, authVars, cmpVars, restVars>>

KeyInit == keyCall = [arg |-> Str(<<>>), done |-> FALSE, ret |-> FALSE]

\* a caller is about to check some value
KeyInitAny == keyCall \in { [arg |-> v, done |-> FALSE, ret |-> FALSE] : v \in KeyInputs }

(***************************************************************************)
(* SecurityUtils.constantTimeCompare, with the steps it performs.          *)
(***************************************************************************)
\* the UTF-16 code units that are surrogates: high (leading) and low (trailing)
IsHighSurrogate(c) == c >= 55296 /\ c <= 56319
IsLowSurrogate(c) == c >= 56320 /\ c <= 57343

\* the UTF-8 bytes of one code point
Utf8Bytes(cp) ==
  IF cp < 128 THEN <<cp>>
  ELSE IF cp < 2048 THEN <<192 + (cp \div 64), 128 + (cp % 64)>>
  ELSE IF cp < 65536
    THEN <<224 + (cp \div 4096), 128 + ((cp \div 64) % 64), 128 + (cp % 64)>>
  ELSE <<240 + (cp \div 262144), 128 + ((cp \div 4096) % 64),
         128 + ((cp \div 64) % 64), 128 + (cp % 64)>>

RECURSIVE Utf8(_)
\* Buffer.from(s): the UTF-8 bytes of the string. A surrogate pair is one code
\* point; a surrogate outside a pair is written as U+FFFD (bytes EF BF BD).
Utf8(chars) ==
  IF chars = <<>> THEN <<>>
  ELSE LET c == Head(chars) IN
    IF IsHighSurrogate(c) /\ Len(chars) > 1 /\ IsLowSurrogate(chars[2])
      THEN Utf8Bytes(65536 + (c - 55296) * 1024 + (chars[2] - 56320))
             \o Utf8(Tail(Tail(chars)))
    ELSE IF IsHighSurrogate(c) \/ IsLowSurrogate(c)
      THEN Utf8Bytes(65533) \o Utf8(Tail(chars))
    ELSE Utf8Bytes(c) \o Utf8(Tail(chars))

\* Buffer.byteLength(s)
ByteLength(chars) == Len(Utf8(chars))

RECURSIVE BitXor(_, _)
BitXor(x, y) ==
  IF x = 0 /\ y = 0 THEN 0
  ELSE (((x % 2) + (y % 2)) % 2) + 2 * BitXor(x \div 2, y \div 2)

RECURSIVE BitOr(_, _)
BitOr(x, y) ==
  IF x = 0 /\ y = 0 THEN 0
  ELSE (IF (x % 2) = 1 \/ (y % 2) = 1 THEN 1 ELSE 0) + 2 * BitOr(x \div 2, y \div 2)

RECURSIVE EarlyExitScan(_, _, _)
\* a comparison that returns at the first byte that differs
EarlyExitScan(bufferA, bufferB, i) ==
  IF i > Len(bufferA) THEN [ret |-> TRUE, steps |-> <<>>]
  ELSE IF bufferA[i] # bufferB[i] THEN [ret |-> FALSE, steps |-> << <<"byte", i>> >>]
  ELSE LET rest == EarlyExitScan(bufferA, bufferB, i + 1) IN
         [ret |-> rest.ret, steps |-> << <<"byte", i>> >> \o rest.steps]

timingSafeEqual_EarlyExit(bufferA, bufferB) == EarlyExitScan(bufferA, bufferB, 1)

RECURSIVE FullScan(_, _, _, _)
\* every byte pair is combined into the accumulator, whatever it holds
FullScan(bufferA, bufferB, i, acc) ==
  IF i > Len(bufferA) THEN [ret |-> acc = 0, steps |-> <<>>]
  ELSE LET rest == FullScan(bufferA, bufferB, i + 1,
                            BitOr(acc, BitXor(bufferA[i], bufferB[i]))) IN
         [ret |-> rest.ret, steps |-> << <<"byte", i>> >> \o rest.steps]

\* crypto.timingSafeEqual(bufferA, bufferB) on buffers of one length
timingSafeEqual(bufferA, bufferB) == FullScan(bufferA, bufferB, 1, 0)

\* SecurityUtils.constantTimeCompare(a, b): the value returned and the steps taken
constantTimeCompare(a, b) ==
  IF a.type # "string" \/ b.type # "string"
    THEN [ret |-> FALSE, steps |-> << <<"typeof", 0>> >>]
  ELSE IF ByteLength(a.chars) # ByteLength(b.chars)
    THEN [ret |-> FALSE,
          steps |-> << <<"typeof", 0>>, <<"byteLength", ByteLength(a.chars)>>,
                       <<"byteLength", ByteLength(b.chars)>> >>]
  ELSE LET cmp == timingSafeEqual(Utf8(a.chars), Utf8(b.chars)) IN
         [ret |-> cmp.ret,
          steps |-> << <<"typeof", 0>>, <<"byteLength", ByteLength(a.chars)>>,
                       <<"byteLength", ByteLength(b.chars)>>,
                       <<"Buffer.from", ByteLength(a.chars)>>,
                       <<"Buffer.from", ByteLength(b.chars)>> >> \o cmp.steps]

\* 'a', 'b', U+00E9 (two bytes), U+20AC (three bytes), a high and a low surrogate
CmpChars == {97, 98, 233, 8364, 55296, 56320}
CmpStrings == UNION { [1..n -> CmpChars] : n \in 0..MaxCmpLen }
CmpInputs == { Str(chars) : chars \in CmpStrings } \cup NonStrings

SameLengthStrings(a, b) ==
  a.type = "string" /\ b.type = "string" /\ ByteLength(a.chars) = ByteLength(b.chars)

\* the caller's call returns
constantTimeCompare_Call ==
  /\ ~cmpCall.done
  /\ LET run == constantTimeCompare(cmpCall.a, cmpCall.b) IN
       cmpCall' = [cmpCall EXCEPT !.done = TRUE, !.ret = run.ret, !.steps = run.steps]
  /\ UNCHANGED <<usageVars, authVars, keyVars, restVars>>

CmpInit ==
  cmpCall = [a |-> Str(<<>>), b |-> Str(<<>>), done |-> FALSE, ret |-> FALSE,
             steps |-> <<>>]

\* a caller is about to compare two values
CmpInitAny ==
  cmpCall \in { [a |-> x, b |-> y, done |-> FALSE, ret |-> FALSE, steps |-> <<>>] :
                   x \in CmpInputs, y \in CmpInputs }

(***************************************************************************)
(* SecurityUtils.hashApiKey and verifyApiKey.                              *)
(***************************************************************************)
\* the greatest element of a non-empty finite set of numbers
MaxOf(S) == CHOOSE m \in S : \A x \in S : x <= m

\* !value for the values passed as a salt: null and '' are falsy
Falsy(value) == value.type # "string" \/ value.chars = <<>>

\* the code unit of one hexadecimal digit, lower case
HexDigit(d) == IF d < 10 THEN 48 + d ELSE 87 + d

RECURSIVE Hex(_)
\* buffer.toString('hex'): two digits for every byte
Hex(bytes) ==
  IF bytes = <<>> THEN <<>>
  ELSE <<HexDigit(Head(bytes) \div 16), HexDigit(Head(bytes) % 16)>> \o Hex(Tail(bytes))

\* the keys hashed: strings of 'a' and U+00E9
HashKeyChars == {97, 233}
HashKeys == { Str(chars) : chars \in UNION { [1..n -> HashKeyChars] : n \in 0..MaxHashKeyLen } }

\* crypto.randomBytes(16).toString('hex'): the values it may return
RandomSalts == { Str(Hex(<<b>>)) : b \in {10, 255} }

\* the salt argument: omitted (null), '', or a stored salt
NullSalt == [type |-> "object", chars |-> <<>>]   \* typeof null
GivenSalts == {NullSalt, Str(<<>>), Str(<<55, 102>>), Str(<<48, 97, 49>>)}

\* the length of a digest, the same for every password and salt
DigestLength ==
  1 + MaxOf({ ByteLength(k.chars) : k \in HashKeys })
    + MaxOf({ ByteLength(v.chars) : v \in GivenSalts \cup RandomSalts })

\* crypto.pbkdf2Sync(password, salt, 10000, 64, 'sha512'): a digest of fixed length
\* that is a function of the bytes of the password and of the salt, and differs
\* whenever they do
Pbkdf2(password, salt) ==
  LET data == <<Len(Utf8(password))>> \o Utf8(password) \o Utf8(salt) IN
    data \o [i \in 1..(DigestLength - Len(data)) |-> 0]

hashApiKey_FreshSalt(apiKey, salt, random) ==
  [hash |-> Str(Hex(Pbkdf2(apiKey.chars, random.chars))), salt |-> random]

\* SecurityUtils.hashApiKey(apiKey, salt), random being what crypto.randomBytes gives
hashApiKey(apiKey, salt, random) ==
  LET used == IF Falsy(salt) THEN random ELSE salt IN
    [hash |-> Str(Hex(Pbkdf2(apiKey.chars, used.chars))), salt |-> used]

\* SecurityUtils.verifyApiKey(apiKey, hash, salt)
verifyApiKey(apiKey, hash, salt) ==
  LET computedHash == Str(Hex(Pbkdf2(apiKey.chars, salt.chars))) IN
    constantTimeCompare(computedHash, hash).ret

NoHash == [hash |-> Str(<<>>), salt |-> Str(<<>>)]

\* const { hash, salt } = hashApiKey(key, given)
hashApiKey_Call(random) ==
  /\ hashCall.pc = "start"
  /\ hashCall' = [hashCall EXCEPT !.pc = "hashed",
                    !.stored = hashApiKey(hashCall.key, hashCall.given, random)]
  /\ UNCHANGED <<coreVars, limitVars, pathVars, sanVars, monVars, cfgVars, svcVars>>

\* verifyApiKey(candidate, hash, salt) on the stored pair
verifyApiKey_Call(candidate) ==
  /\ hashCall.pc = "hashed"
  /\ hashCall' = [hashCall EXCEPT !.pc = "verified", !.candidate = candidate,
                    !.ret = verifyApiKey(candidate, hashCall.stored.hash,
                                         hashCall.stored.salt)]
  /\ UNCHANGED <<coreVars, limitVars, pathVars, sanVars, monVars, cfgVars, svcVars>>

\* hashApiKey(key, salt) once more, with the stored salt
hashApiKey_Again(random) ==
  /\ hashCall.pc = "hashed"
  /\ hashCall' = [hashCall EXCEPT !.pc = "rehashed",
                    !.again = hashApiKey(hashCall.key, hashCall.stored.salt, random)]
  /\ UNCHANGED <<coreVars, limitVars, pathVars, sanVars, monVars, cfgVars, svcVars>>

HashInitOf(key, given) ==
  hashCall = [key |-> key, given |-> given, pc |-> "start", stored |-> NoHash,
              candidate |-> Str(<<>>), ret |-> FALSE, again |-> NoHash]

HashInit == HashInitOf(Str(<<>>), NullSalt)

\* a caller is about to hash some key, with or without a salt
HashInitAny == \E key \in HashKeys, given \in GivenSalts : HashInitOf(key, given)

HashNext ==
  \/ \E random \in RandomSalts : hashApiKey_Call(random)
  \/ \E candidate \in HashKeys : verifyApiKey_Call(candidate)
  \/ \E random \in RandomSalts : hashApiKey_Again(random)

(***************************************************************************)
(* SecurityUtils.RateLimiter: one limiter, built with these options.       *)
(***************************************************************************)
maxAttempts == 2
windowMs == 1000
backoffMultiplier == 2

Identifiers == {"10.0.0.1", "10.0.0.2"}

\* the clock moves in steps of half a window
TickMs == windowMs \div 2

Newer_Inclusive(timestamps, nowMs, span) ==
  SelectSeq(timestamps, LAMBDA timestamp : nowMs - timestamp <= span)

\* record.attempts.filter((timestamp) => now - timestamp < span)
Newer(timestamps, nowMs, span) ==
  SelectSeq(timestamps, LAMBDA timestamp : nowMs - timestamp < span)

\* Math.ceil(ms / 1000) for ms > 0
CeilSeconds(ms) == (ms + 999) \div 1000

calculateLockoutTime_NoBackoff(attemptCount) == 0

\* RateLimiter.calculateLockoutTime(attemptCount)
calculateLockoutTime(attemptCount) ==
  LET baseLockout == windowMs
      excessAttempts == Max(0, attemptCount - maxAttempts)
  IN baseLockout * (backoffMultiplier ^ excessAttempts)

NotLimited(remaining) == [limited |-> FALSE, remainingAttempts |-> remaining]

\* what check returns for a record whose old attempts were cleaned
CheckResult(kept, nowMs) ==
  LET timeUntilReset == kept[1] + calculateLockoutTime(Len(kept)) - nowMs IN
    IF Len(kept) >= maxAttempts /\ timeUntilReset > 0
      THEN [limited |-> TRUE, remainingAttempts |-> 0,
            resetTime |-> nowMs + timeUntilReset,
            retryAfter |-> CeilSeconds(timeUntilReset)]
      ELSE NotLimited(maxAttempts - Len(kept))

\* what check(identifier) would return in this state
CheckReport(records, identifier, nowMs) ==
  IF identifier \notin DOMAIN records THEN NotLimited(maxAttempts)
  ELSE CheckResult(Newer(records[identifier], nowMs, windowMs), nowMs)

LimitRetOf(op, identifier, result) == [op |-> op, id |-> identifier, result |-> result]

\* What the caller of an identifier has done since its record was new.
\*   discipline: "checked" after a check that reported limited=false and before
\*     the attempt it allows is recorded, "broken" once an attempt was recorded
\*     without such a check, "idle" otherwise;
\*   granted: the times of the attempts recorded, those of the last windowMs,
\*     while the discipline holds;
\*   until: the resetTime the last limited=true report gave, 0 if none;
\*   cleared: "no" until reset is called; then "all" if reset removed maxAttempts
\*     timestamps or more, else "some".
NewHist == [discipline |-> "idle", granted |-> <<>>, until |-> 0, cleared |-> "no"]

check_KeepsOldAttempts(identifier) ==
  LET result == IF identifier \notin DOMAIN attempts THEN NotLimited(maxAttempts)
                ELSE CheckResult(attempts[identifier], clock)
  IN
    /\ limitRet' = LimitRetOf("check", identifier, result)
    /\ limitHist' = [limitHist EXCEPT
         ![identifier].discipline =
            IF @ = "broken" THEN @ ELSE IF result.limited THEN "idle" ELSE "checked",
         ![identifier].granted = Newer(@, clock, windowMs),
         ![identifier].until = IF result.limited THEN result.resetTime ELSE @]
    /\ UNCHANGED <<attempts, clock>>
    /\ UNCHANGED <<coreVars, hashVars, pathVars, sanVars, monVars, cfgVars, svcVars>>

\* RateLimiter.check(identifier)
check(identifier) ==
  LET result == CheckReport(attempts, identifier, clock) IN
    /\ attempts' =
         IF identifier \in DOMAIN attempts
           THEN [attempts EXCEPT ![identifier] = Newer(@, clock, windowMs)]
           ELSE attempts
    /\ limitRet' = LimitRetOf("check", identifier, result)
    /\ limitHist' = [limitHist EXCEPT
         ![identifier].discipline =
            IF @ = "broken" THEN @ ELSE IF result.limited THEN "idle" ELSE "checked",
         ![identifier].granted = Newer(@, clock, windowMs),
         ![identifier].until = IF result.limited THEN result.resetTime ELSE @]
    /\ UNCHANGED <<clock, coreVars, hashVars, pathVars, sanVars, monVars, cfgVars, svcVars>>

\* RateLimiter.cleanup()
Cleaned(records, nowMs) ==
  LET kept == { identifier \in DOMAIN records :
                  Newer(records[identifier], nowMs, windowMs * 2) # <<>> }
  IN [identifier \in kept |-> Newer(records[identifier], nowMs, windowMs * 2)]

\* the caller's history after reset(identifier)
HistAfterReset(identifier) ==
  [NewHist EXCEPT !.cleared =
     IF identifier \in DOMAIN attempts /\ Len(attempts[identifier]) >= maxAttempts
       THEN "all" ELSE "some"]

reset_KeepsRecord(identifier) ==
  /\ attempts' = attempts
  /\ limitRet' = LimitRetOf("reset", identifier, NotLimited(maxAttempts))
  /\ limitHist' = [limitHist EXCEPT ![identifier] = HistAfterReset(identifier)]
  /\ UNCHANGED <<clock, coreVars, hashVars, pathVars, sanVars, monVars, cfgVars, svcVars>>

\* RateLimiter.reset(identifier)
reset(identifier) ==
  /\ attempts' = [other \in DOMAIN attempts \ {identifier} |-> attempts[other]]
  /\ limitRet' = LimitRetOf("reset", identifier, NotLimited(maxAttempts))
  /\ limitHist' = [limitHist EXCEPT ![identifier] = HistAfterReset(identifier)]
  /\ UNCHANGED <<clock, coreVars, hashVars, pathVars, sanVars, monVars, cfgVars, svcVars>>

\* time passes
TickClock ==
  /\ clock < MaxTicks * TickMs
  /\ clock' = clock + TickMs
  /\ UNCHANGED <<attempts, limitRet, limitHist>>
  /\ UNCHANGED <<coreVars, hashVars, pathVars, sanVars, monVars, cfgVars, svcVars>>

\* RateLimiter.recordAttempt(identifier); cleans: Math.random() < 0.01
recordAttempt(identifier, cleans) ==
  LET record == IF identifier \in DOMAIN attempts THEN attempts[identifier] ELSE <<>>
      pushed == [other \in DOMAIN attempts \cup {identifier} |->
                   IF other = identifier THEN Append(record, clock) ELSE attempts[other]]
      allowed == limitHist[identifier].discipline = "checked"
  IN
    /\ Len(record) < MaxRecorded
    /\ attempts' = IF cleans THEN Cleaned(pushed, clock) ELSE pushed
    /\ limitRet' = LimitRetOf("recordAttempt", identifier, NotLimited(maxAttempts))
    /\ limitHist' = [limitHist EXCEPT
         ![identifier].discipline = IF allowed THEN "idle" ELSE "broken",
         ![identifier].granted =
            IF allowed THEN Newer(Append(@, clock), clock, windowMs) ELSE <<>>,
         ![identifier].until = 0,
         ![identifier].cleared = "no"]
    /\ UNCHANGED <<clock, coreVars, hashVars, pathVars, sanVars, monVars, cfgVars, svcVars>>

\* RateLimiter.cleanup() called by itself
cleanup ==
  /\ attempts' = Cleaned(attempts, clock)
  /\ limitRet' = LimitRetOf("cleanup", "", NotLimited(maxAttempts))
  /\ UNCHANGED <<clock, limitHist>>
  /\ UNCHANGED <<coreVars, hashVars, pathVars, sanVars, monVars, cfgVars, svcVars>>

LimitNext ==
  \/ \E identifier \in Identifiers : check(identifier)
  \/ \E identifier \in Identifiers, cleans \in BOOLEAN : recordAttempt(identifier, cleans)
  \/ \E identifier \in Identifiers : reset(identifier)
  \/ cleanup
  \/ TickClock

LimitInit ==
  /\ attempts = [identifier \in {} |-> <<>>]
  /\ clock = 0
  /\ limitRet = [op |-> "none", id |-> "", result |-> NotLimited(maxAttempts)]
  /\ limitHist = [identifier \in Identifiers |-> NewHist]

(***************************************************************************)
(* SecurityUtils.validatePath, with path.resolve on POSIX paths.           *)
(***************************************************************************)
\* the code units of '/' and '.'
Slash == 47
Dot == 46

RECURSIVE Split(_, _)
\* chars.split('/'), current being the segment read so far
Split(chars, current) ==
  IF chars = <<>> THEN <<current>>
  ELSE IF Head(chars) = Slash THEN <<current>> \o Split(Tail(chars), <<>>)
  ELSE Split(Tail(chars), Append(current, Head(chars)))

RECURSIVE Normalize(_, _)
\* the directories left after '', '.' and '..' segments are resolved from the root
Normalize(segments, stack) ==
  IF segments = <<>> THEN stack
  ELSE LET segment == Head(segments) IN
    IF segment = <<>> \/ segment = <<Dot>> THEN Normalize(Tail(segments), stack)
    ELSE IF segment = <<Dot, Dot>>
      THEN Normalize(Tail(segments),
                     IF stack = <<>> THEN stack ELSE SubSeq(stack, 1, Len(stack) - 1))
    ELSE Normalize(Tail(segments), Append(stack, segment))

RECURSIVE Join(_)
\* '/' before every directory
Join(segments) ==
  IF segments = <<>> THEN <<>>
  ELSE <<Slash>> \o Head(segments) \o Join(Tail(segments))

\* the directories of path.resolve(basePath, path), basePath being absolute
ResolvedSegments(basePath, path) ==
  IF path # <<>> /\ Head(path) = Slash
    THEN Normalize(Split(path, <<>>), <<>>)
    ELSE Normalize(Split(basePath, <<>>) \o Split(path, <<>>), <<>>)

\* require('path').resolve(basePath, path)
Resolve(basePath, path) ==
  LET segments == ResolvedSegments(basePath, path) IN
    IF segments = <<>> THEN <<Slash>> ELSE Join(segments)

Null == [type |-> "object", chars |-> <<>>]

\* SecurityUtils.validatePath(path, basePath)
validatePath(path, basePath) ==
  IF Falsy(path) THEN Null
  ELSE LET resolvedPath == Resolve(basePath.chars, path.chars)
           resolvedBase == Resolve(basePath.chars, <<>>)
       IN IF ~StartsWith(resolvedPath, resolvedBase) THEN Null
          ELSE Str(resolvedPath)

\* the base directory '/d'; paths are written with '/', '.', 'd' and 'e'
BasePath == Str(<<Slash, 100>>)
PathChars == {Slash, Dot, 100, 101}
PathInputs ==
  NonStrings \cup { Str(chars) : chars \in UNION { [1..n -> PathChars] : n \in 0..MaxPathLen } }

\* the caller's call returns
validatePath_Call ==
  /\ ~pathCall.done
  /\ pathCall' = [pathCall EXCEPT !.done = TRUE,
                    !.ret = validatePath(pathCall.path, pathCall.basePath)]
  /\ UNCHANGED <<coreVars, hashVars, limitVars, sanVars, monVars, cfgVars, svcVars>>

PathInitOf(path) ==
  pathCall = [path |-> path, basePath |-> BasePath, done |-> FALSE, ret |-> Null]

PathInit == PathInitOf(Str(<<>>))

\* a caller is about to validate some path against the base directory
PathInitAny == \E path \in PathInputs : PathInitOf(path)

(***************************************************************************)
(* SecurityUtils.sanitizeInput.                                            *)
(***************************************************************************)
DefaultMaxLength == 1000

\* [\x00-\x08\x0B\x0C\x0E-\x1F\x7F]
IsControlChar(c) ==
  \/ c \in 0..8
  \/ c \in {11, 12}
  \/ c \in 14..31
  \/ c = 127

\* ['";\\] replaced by '\\$&': a backslash before the character
SqlEscaped(c) == IF c \in {39, 34, 59, 92} THEN <<92, c>> ELSE <<c>>

\* htmlEscapes[char] for [&<>"']
HtmlEscaped(c) ==
  IF c = 38 THEN <<38, 97, 109, 112, 59>>              \* &amp;
  ELSE IF c = 60 THEN <<38, 108, 116, 59>>             \* &lt;
  ELSE IF c = 62 THEN <<38, 103, 116, 59>>             \* &gt;
  ELSE IF c = 34 THEN <<38, 113, 117, 111, 116, 59>>   \* &quot;
  ELSE IF c = 39 THEN <<38, 35, 51, 57, 59>>           \* &#39;
  ELSE <<c>>

RECURSIVE EscapeSql(_)
\* chars.replace(/['";\\]/g, '\\$&')
EscapeSql(chars) ==
  IF chars = <<>> THEN <<>> ELSE SqlEscaped(Head(chars)) \o EscapeSql(Tail(chars))

RECURSIVE EscapeHtml(_)
\* chars.replace(/[&<>"']/g, (char) => htmlEscapes[char])
EscapeHtml(chars) ==
  IF chars = <<>> THEN <<>> ELSE HtmlEscaped(Head(chars)) \o EscapeHtml(Tail(chars))

\* options.maxLength || 1000
MaxLengthOf(options) ==
  IF "maxLength" \in DOMAIN options /\ options.maxLength # 0
    THEN options.maxLength ELSE DefaultMaxLength

\* options.flag, undefined when the option is missing
Option(options, flag) == flag \in DOMAIN options /\ options[flag]

\* SecurityUtils.sanitizeInput(input, options)
sanitizeInput(input, options) ==
  IF input.type # "string" THEN Str(<<>>)
  ELSE
    LET noNull == SelectSeq(input.chars, LAMBDA c : c # 0)
        maxLength == MaxLengthOf(options)
        cut == IF Len(noNull) > maxLength THEN SubSeq(noNull, 1, maxLength) ELSE noNull
        noControl == IF ~Option(options, "allowControlChars")
                       THEN SelectSeq(cut, LAMBDA c : ~IsControlChar(c)) ELSE cut
        sql == IF Option(options, "escapeSql")
                 THEN EscapeSql(noControl) ELSE noControl
        html == IF Option(options, "escapeHtml") THEN EscapeHtml(sql) ELSE sql
    IN Str(html)

\* the characters tried: NUL, BEL, ampersand, apostrophe, 'a'
SanChars == {0, 7, 38, 39, 97}
SanInputs ==
  NonStrings \cup { Str(chars) : chars \in UNION { [1..n -> SanChars] : n \in 0..MaxInputLen } }

\* the options objects tried: any of the three flags, with or without a maxLength
SanFlags == {"escapeSql", "escapeHtml", "allowControlChars"}
SanOptions ==
  { [f \in flags |-> TRUE] : flags \in SUBSET SanFlags } \cup
  { [f \in flags \cup {"maxLength"} |-> IF f = "maxLength" THEN n ELSE TRUE] :
      flags \in SUBSET SanFlags, n \in 0..MaxInputLen }

\* the caller's call returns
sanitizeInput_Call ==
  /\ ~sanCall.done
  /\ sanCall' = [sanCall EXCEPT !.done = TRUE,
                   !.ret = sanitizeInput(sanCall.input, sanCall.options)]
  /\ UNCHANGED <<coreVars, hashVars, limitVars, pathVars, monVars, cfgVars, svcVars>>

SanInitOf(input, options) ==
  sanCall = [input |-> input, options |-> options, done |-> FALSE, ret |-> Str(<<>>)]

SanInit == SanInitOf(Str(<<>>), [f \in {} |-> TRUE])

\* a caller is about to sanitize some value with some options
SanInitAny == \E input \in SanInputs, options \in SanOptions : SanInitOf(input, options)

(***************************************************************************)
(* MonitoringService and the health router.  performHealthCheck is an      *)
(* async function, called by GET /health ("route") and by the periodic     *)
(* health check ("timer"); the frame of a caller is at                     *)
(*   "idle"     not running,                                               *)
(*   "pinging"  waiting for Redis in checkRedis, the other checks done,    *)
(*   "settled"  all four checks settled, its continuation not yet run,     *)
(*   "returned" healthStatus returned to GET /health, which has not yet    *)
(*              resumed,                                                   *)
(*   "orphaned" abandoned by a caller that got an exception while the       *)
(*              Redis check is still waiting.                              *)
(* A continuation that is ready runs before any timer, request or reply.   *)
(***************************************************************************)
\* who calls performHealthCheck while the service runs: GET /health and the
\* health interval; start() calls it once before it sets the intervals
Pollers == {"route", "timer"}
Callers == Pollers \cup {"start"}

\* thresholds in percent: production, and any other NODE_ENV
ProductionMemoryThreshold == 80
ProductionHeapThreshold == 85
DevelopmentThreshold == 95

ThresholdsOf(production) ==
  [memory |-> IF production THEN ProductionMemoryThreshold ELSE DevelopmentThreshold,
   heap |-> IF production THEN ProductionHeapThreshold ELSE DevelopmentThreshold]

\* the heap and system usage, in percent, that a memory check may find
MemoryReadings == {<<50, 50>>, <<85, 50>>, <<50, 80>>, <<84, 79>>}

\* checkMemory: isHealthy
MemoryHealthy(heapPercent, systemPercent) ==
  heapPercent < thresholds.heap /\ systemPercent < thresholds.memory

\* checkApiHealth: isHealthy, that is 1 - success / total < 0.1 in IEEE doubles,
\* with 1 for success / total when total = 0.  When exactly a tenth of the
\* requests failed, success / total is the double 0.9 and 1 - 0.9 is
\* 0.09999999999999998, which is below the double 0.1; a larger share of failures
\* gives a difference above 0.1.
ApiHealthy(counts) ==
  counts.total = 0 \/ 10 * (counts.total - counts.success) <= counts.total

\* fewer than a tenth of the requests failed, or there were none
FailureRateBelowTenPercent(counts) ==
  counts.total = 0 \/ 10 * (counts.total - counts.success) < counts.total

\* the periodic tasks start() sets up, and intervals[task] before that
Tasks == {"health", "memory", "cleanup"}
NoTimer == 0

DatabaseHealthy_NeedsDatabase(queryThrows) == db /\ ~queryThrows

\* checkDatabase: healthy without a database, or when the queries answer
DatabaseHealthy(queryThrows) == ~db \/ ~queryThrows

IdleRun == [pc |-> "idle", passed |-> TRUE, belowLimits |-> TRUE]

\* no continuation of a health check is waiting to run
ContinuationsDone == \A caller \in Callers : runs[caller].pc \notin {"settled", "returned"}

\* a response, with what the handler went through (history): whether it threw,
\* for /health whether the checks of its own run were below their limits, for
\* /readiness how the Redis check that completed last had ended
HttpRetOf(route, status, body, passed, threw) ==
  [route |-> route, status |-> status, body |-> body, passed |-> passed,
   threw |-> threw, lastRedis |-> IF route = "/readiness" THEN redisDone ELSE "none"]

HourMs == 3600000

\* this.lastReset when it is null or was never assigned
NoReset == -1

\* the error argument of recordRequest when it is null
NoError == "null"

\* error.code || error.message || 'unknown' of the errors recorded
ErrorKeys == {"ECONNRESET", "unknown"}

\* the hour before midnight at which the wall clock starts
FirstHour == 24 * FirstDay - 1

\* now.getHours() and now.toDateString(), the server's time zone being UTC
LocalHour(hour) == hour % 24
DayOf(hour) == hour \div 24

ZeroRequests_OneFailed == [total |-> 0, success |-> 0, failed |-> 1]

\* metrics.requests and metrics.apiKeys as the constructor and the daily reset
\* write them (avgResponseTime is left out)
ZeroRequests == [total |-> 0, success |-> 0, failed |-> 0]
ZeroApiKeys == [validated |-> 0, failed |-> 0, cached |-> 0]

\* performMemoryCleanup: metrics.errors after the loop that deletes the entries
\* with timestamp < oneHourAgo, where timestamp is the value the Map holds for
\* the key and oneHourAgo is Date.now() - 3600000; Date.now() is nowHour * HourMs
\* (slowQueries and the forced garbage collection are left out)
performMemoryCleanup(errs, seen, nowHour) ==
  [errorKey \in { k \in DOMAIN errs : ~(errs[k] \div HourMs < nowHour - 1) } |->
     errs[errorKey]]

\* MonitoringService.recordRequest(success, responseTime, error)
recordRequest(success, error) ==
  /\ ContinuationsDone
  /\ requests' = [total |-> requests.total + 1,
                  success |-> requests.success + (IF success THEN 1 ELSE 0),
                  failed |-> requests.failed + (IF success THEN 0 ELSE 1)]
  /\ IF ~success /\ error # NoError
       THEN /\ errors' = [errorKey \in DOMAIN errors \cup {error} |->
                           IF errorKey = error
                             THEN (IF error \in DOMAIN errors THEN errors[error] ELSE 0) + 1
                             ELSE errors[errorKey]]
            /\ errorSeen' = [errorKey \in DOMAIN errorSeen \cup {error} |->
                              IF errorKey = error THEN epochHour ELSE errorSeen[errorKey]]
       ELSE UNCHANGED <<errors, errorSeen>>
  /\ UNCHANGED <<healthStatus, thresholds, runs, httpRet, redisDone>>
  /\ UNCHANGED <<apiKeys, lastReset, epochHour, metricRet, timerVars, listVars>>
  /\ UNCHANGED <<coreVars, hashVars, limitVars, pathVars, sanVars, cfgVars>>

\* MonitoringService.recordApiKeyValidation(success, cached)
recordApiKeyValidation(success, cached) ==
  /\ ContinuationsDone
  /\ apiKeys' =
       IF success
         THEN [apiKeys EXCEPT !.validated = @ + 1,
                              !.cached = @ + (IF cached THEN 1 ELSE 0)]
         ELSE [apiKeys EXCEPT !.failed = @ + 1]
  /\ UNCHANGED <<errors, errorSeen, lastReset, epochHour, metricRet>>
  /\ UNCHANGED <<coreVars, hashVars, limitVars, pathVars, sanVars, monVars, cfgVars>>
  /\ UNCHANGED <<timerVars, listVars>>

resetMetricsIfNeeded_EveryCall ==
  LET resets == LocalHour(epochHour) = 0 IN
    /\ ContinuationsDone
    /\ requests' = IF resets THEN ZeroRequests ELSE requests
    /\ apiKeys' = IF resets THEN ZeroApiKeys ELSE apiKeys
    /\ lastReset' = IF resets THEN DayOf(epochHour) ELSE NoReset
    /\ metricRet' = [seq |-> 1 - metricRet.seq, reset |-> resets,
                     callsThisHour |-> IF metricRet.callsThisHour = 0 THEN 1 ELSE 2]
    /\ UNCHANGED <<errors, errorSeen, epochHour>>
    /\ UNCHANGED <<healthStatus, thresholds, runs, httpRet, redisDone>>
    /\ UNCHANGED <<coreVars, hashVars, limitVars, pathVars, sanVars, cfgVars>>
    /\ UNCHANGED <<timerVars, listVars>>

\* MonitoringService.resetMetricsIfNeeded(), which performCleanup calls after its
\* awaits; metricRet (history) keeps whether the call reset the counters and how
\* many calls the present hour has seen, counted up to two
resetMetricsIfNeeded ==
  LET hour == LocalHour(epochHour)
      resets == hour = 0 /\ lastReset = NoReset
  IN
    /\ ContinuationsDone
    /\ requests' = IF resets THEN ZeroRequests ELSE requests
    /\ apiKeys' = IF resets THEN ZeroApiKeys ELSE apiKeys
    /\ lastReset' = IF resets THEN DayOf(epochHour)
                    ELSE IF hour # 0 THEN NoReset ELSE lastReset
    /\ metricRet' = [seq |-> 1 - metricRet.seq, reset |-> resets,
                     callsThisHour |-> IF metricRet.callsThisHour = 0 THEN 1 ELSE 2]
    /\ UNCHANGED <<errors, errorSeen, epochHour>>
    /\ UNCHANGED <<healthStatus, thresholds, runs, httpRet, redisDone>>
    /\ UNCHANGED <<coreVars, hashVars, limitVars, pathVars, sanVars, cfgVars>>
    /\ UNCHANGED <<timerVars, listVars>>

\* Time passes on the wall clock.  The service is looked at from an hour before
\* midnight to an hour after it; the rest of the day passes in one step.
HourPasses ==
  LET step == IF LocalHour(epochHour) \in {23, 0} THEN 1 ELSE 22 IN
    /\ epochHour + step <= FirstHour + MaxHours
    /\ epochHour' = epochHour + step
    /\ metricRet' = [metricRet EXCEPT !.callsThisHour = 0]
    /\ UNCHANGED <<apiKeys, errors, errorSeen, lastReset>>
    /\ UNCHANGED <<coreVars, hashVars, limitVars, pathVars, sanVars, monVars, cfgVars>>
    /\ UNCHANGED <<timerVars, listVars>>

\* the periodic memory check, setInterval(() => this.checkMemory(), 60000):
\* checkMemory calls performMemoryCleanup when the usage is too high
checkMemory(heapPercent, systemPercent) ==
  /\ ContinuationsDone
  /\ healthStatus' =
       [healthStatus EXCEPT !.memory = MemoryHealthy(heapPercent, systemPercent)]
  /\ errors' = IF MemoryHealthy(heapPercent, systemPercent) THEN errors
               ELSE performMemoryCleanup(errors, errorSeen, epochHour)
  /\ UNCHANGED <<requests, thresholds, runs, httpRet, redisDone>>
  /\ UNCHANGED <<apiKeys, errorSeen, lastReset, epochHour, metricRet>>
  /\ UNCHANGED <<coreVars, hashVars, limitVars, pathVars, sanVars, cfgVars>>
  /\ UNCHANGED <<timerVars, listVars>>

\* What a run has found so far: passed is the conjunction of the values its
\* checks returned; belowLimits (history) says the same of the conditions as the
\* interface states them, the failure rate being strictly below 10%.
RunOf(pc, passed, belowLimits) ==
  [pc |-> pc, passed |-> passed, belowLimits |-> belowLimits]

\* performHealthCheck() up to its await: checkRedis runs to its first await, or to
\* its catch when there is no client; checkDatabase, checkMemory and
\* checkApiHealth run to their end
performHealthCheck_Start(caller, clientAvailable, queryThrows, heapPercent, systemPercent) ==
  LET databaseOk == DatabaseHealthy(queryThrows)
      memoryOk == MemoryHealthy(heapPercent, systemPercent)
      apiOk == ApiHealthy(requests)
      others == databaseOk /\ memoryOk /\ apiOk
      othersBelow == databaseOk /\ memoryOk /\ FailureRateBelowTenPercent(requests)
  IN
    /\ ContinuationsDone
    /\ runs[caller].pc = "idle"
    /\ healthStatus' = [healthStatus EXCEPT
         !.redis = IF clientAvailable THEN @ ELSE FALSE,
         !.database = databaseOk,
         !.memory = memoryOk,
         !.api = apiOk]
    /\ redisDone' = IF clientAvailable THEN redisDone ELSE "failed"
    /\ runs' = [runs EXCEPT ![caller] =
         IF clientAvailable
           THEN RunOf("pinging", others, othersBelow)
           ELSE RunOf("settled", FALSE, FALSE)]
    /\ errors' = IF memoryOk THEN errors
                 ELSE performMemoryCleanup(errors, errorSeen, epochHour)
    /\ stopped' = IF caller = "start" THEN FALSE ELSE stopped
    /\ UNCHANGED <<requests, thresholds, httpRet>>
    /\ UNCHANGED <<apiKeys, errorSeen, lastReset, epochHour, metricRet>>
    /\ UNCHANGED <<coreVars, hashVars, limitVars, pathVars, sanVars, cfgVars>>
    /\ UNCHANGED <<intervals, timers, starts, listVars>>

\* performHealthCheck() throwing before its await, in checkMemory: the checks
\* before it have run, GET /health answers from its catch
performHealthCheck_Throws(caller, clientAvailable, queryThrows) ==
  /\ ContinuationsDone
  /\ runs[caller].pc = "idle"
  /\ healthStatus' = [healthStatus EXCEPT
       !.redis = IF clientAvailable THEN @ ELSE FALSE,
       !.database = DatabaseHealthy(queryThrows)]
  /\ redisDone' = IF clientAvailable THEN redisDone ELSE "failed"
  /\ runs' = [runs EXCEPT ![caller] =
       IF clientAvailable THEN RunOf("orphaned", FALSE, FALSE) ELSE IdleRun]
  /\ httpRet' = IF caller = "route"
                  THEN HttpRetOf("/health", 503, "error", FALSE, TRUE) ELSE httpRet
  /\ UNCHANGED <<requests, thresholds>>
  /\ UNCHANGED <<coreVars, hashVars, limitVars, pathVars, sanVars, cfgVars, svcVars>>

\* the frames after the Redis checks of the callers in done have ended
RunsAfterRedis(done, ok) ==
  [caller \in Callers |->
     IF caller \notin done THEN runs[caller]
     ELSE IF runs[caller].pc = "orphaned" THEN IdleRun
     ELSE RunOf("settled", runs[caller].passed /\ ok[caller],
                runs[caller].belowLimits /\ ok[caller])]

checkRedis_Done_KeepsStatus(done, last, ok) ==
  /\ ContinuationsDone
  /\ last \in done
  /\ \A caller \in done : runs[caller].pc \in {"pinging", "orphaned"}
  /\ healthStatus' = [healthStatus EXCEPT !.redis = @ \/ ok[last]]
  /\ redisDone' = IF ok[last] THEN "ok" ELSE "failed"
  /\ runs' = RunsAfterRedis(done, ok)
  /\ UNCHANGED <<requests, thresholds, httpRet>>
  /\ UNCHANGED <<coreVars, hashVars, limitVars, pathVars, sanVars, cfgVars, svcVars>>

\* checkRedis after its awaits, ping and info answered (ok) or its catch.  One
\* read of the Redis socket may carry the replies of several waiting checks:
\* done are the callers whose check ends in this turn of the event loop, last
\* the one among them whose check ends last.
checkRedis_Done(done, last, ok) ==
  /\ ContinuationsDone
  /\ last \in done
  /\ \A caller \in done : runs[caller].pc \in {"pinging", "orphaned"}
  /\ healthStatus' = [healthStatus EXCEPT !.redis = ok[last]]
  /\ redisDone' = IF ok[last] THEN "ok" ELSE "failed"
  /\ runs' = RunsAfterRedis(done, ok)
  /\ UNCHANGED <<requests, thresholds, httpRet>>
  /\ UNCHANGED <<coreVars, hashVars, limitVars, pathVars, sanVars, cfgVars, svcVars>>

\* performHealthCheck() after await Promise.allSettled(checks)
performHealthCheck_Finish(caller) ==
  /\ runs[caller].pc = "settled"
  /\ healthStatus' = [healthStatus EXCEPT !.healthy = runs[caller].passed]
  /\ runs' = [runs EXCEPT ![caller] =
       IF caller = "timer" THEN IdleRun ELSE [@ EXCEPT !.pc = "returned"]]
  /\ UNCHANGED <<requests, thresholds, httpRet, redisDone>>
  /\ UNCHANGED <<coreVars, hashVars, limitVars, pathVars, sanVars, cfgVars, svcVars>>

\* router.get('/health') after await monitoringService.performHealthCheck(); the
\* continuations of the checks that settled in the same turn run before it
health_Respond ==
  /\ runs["route"].pc = "returned"
  /\ \A caller \in Callers : runs[caller].pc # "settled"
  /\ httpRet' = HttpRetOf("/health", IF healthStatus.healthy THEN 200 ELSE 503,
                          IF healthStatus.healthy THEN "healthy" ELSE "unhealthy",
                          runs["route"].belowLimits, FALSE)
  /\ runs' = [runs EXCEPT !["route"] = IdleRun]
  /\ UNCHANGED <<healthStatus, requests, thresholds, redisDone>>
  /\ UNCHANGED <<coreVars, hashVars, limitVars, pathVars, sanVars, cfgVars, svcVars>>

\* router.get('/readiness'); unreadable: reading the health state throws
readiness(unreadable) ==
  LET isReady == healthStatus.redis = TRUE IN
    /\ ContinuationsDone
    /\ httpRet' =
         IF unreadable THEN HttpRetOf("/readiness", 503, "not ready", FALSE, TRUE)
         ELSE HttpRetOf("/readiness", IF isReady THEN 200 ELSE 503,
                        IF isReady THEN "ready" ELSE "not ready", FALSE, FALSE)
    /\ UNCHANGED <<healthStatus, requests, thresholds, runs, redisDone>>
    /\ UNCHANGED <<coreVars, hashVars, limitVars, pathVars, sanVars, cfgVars, svcVars>>

\* the ids setInterval returns to the start() call that is the n-th to set them
TimerId(n, task) ==
  3 * n + (CASE task = "health" -> 1 [] task = "memory" -> 2 [] task = "cleanup" -> 3)

\* MonitoringService.start() up to its await: the initial performHealthCheck()
start_Begin(clientAvailable, queryThrows, heapPercent, systemPercent) ==
  /\ starts < MaxStarts
  /\ performHealthCheck_Start("start", clientAvailable, queryThrows,
                              heapPercent, systemPercent)

\* MonitoringService.start() after its await: the three setInterval calls, each
\* result assigned over what this.intervals held (setupShutdownHandlers only
\* registers signal handlers and is left out)
start_Resume ==
  LET set == [task \in Tasks |-> TimerId(starts, task)] IN
    /\ runs["start"].pc = "returned"
    /\ \A caller \in Callers : runs[caller].pc # "settled"
    /\ intervals' = set
    /\ timers' = [id \in DOMAIN timers \cup { set[task] : task \in Tasks } |->
                    IF id \in DOMAIN timers THEN timers[id]
                    ELSE CHOOSE task \in Tasks : set[task] = id]
    /\ starts' = starts + 1
    /\ runs' = [runs EXCEPT !["start"] = IdleRun]
    /\ UNCHANGED <<healthStatus, requests, thresholds, httpRet, redisDone, stopped>>
    /\ UNCHANGED <<coreVars, hashVars, limitVars, pathVars, sanVars, cfgVars>>
    /\ UNCHANGED <<metricVars, listVars>>

\* MonitoringService.stop(): clearInterval on every value of this.intervals that
\* is set; the values stay in this.intervals
stop ==
  LET cleared == { intervals[task] : task \in Tasks } \ {NoTimer} IN
    /\ ContinuationsDone
    /\ timers' = [id \in DOMAIN timers \ cleared |-> timers[id]]
    /\ stopped' = TRUE
    /\ UNCHANGED <<intervals, starts>>
    /\ UNCHANGED <<coreVars, hashVars, limitVars, pathVars, sanVars, monVars, cfgVars>>
    /\ UNCHANGED <<metricVars, listVars>>

\* the callback of the health interval: this.performHealthCheck().catch(...)
interval_health(id, clientAvailable, queryThrows, heapPercent, systemPercent) ==
  /\ id \in DOMAIN timers /\ timers[id] = "health"
  /\ performHealthCheck_Start("timer", clientAvailable, queryThrows,
                              heapPercent, systemPercent)

\* the callback of the memory interval: this.checkMemory()
interval_memory(id, heapPercent, systemPercent) ==
  /\ id \in DOMAIN timers /\ timers[id] = "memory"
  /\ checkMemory(heapPercent, systemPercent)

\* the callback of the cleanup interval: this.performCleanup(), which ends with
\* resetMetricsIfNeeded() (its Redis housekeeping changes nothing modelled here)
interval_cleanup(id) ==
  /\ id \in DOMAIN timers /\ timers[id] = "cleanup"
  /\ resetMetricsIfNeeded

\* no health check has run and no response has been sent
MonitoringFresh ==
  /\ \A caller \in Callers : runs[caller] = IdleRun
  /\ httpRet.route = "none"
  /\ redisDone = "none"

\* DatabaseService.initialize(), called once when the service starts
databaseStarts(found) == MonitoringFresh /\ usageRet.op = "none" /\ initialize(found)

\* the MonitoringService constructor, after earlier successful requests or none
MonInitOf(production, earlier) ==
  /\ healthStatus = [healthy |-> TRUE, redis |-> FALSE, database |-> FALSE,
                     memory |-> TRUE, api |-> TRUE]
  /\ requests = [total |-> earlier, success |-> earlier, failed |-> 0]
  /\ thresholds = ThresholdsOf(production)
  /\ runs = [caller \in Callers |-> IdleRun]
  /\ httpRet = [route |-> "none", status |-> 0, body |-> "", passed |-> FALSE,
                threw |-> FALSE, lastRedis |-> "none"]
  /\ redisDone = "none"

MonInit == MonInitOf(TRUE, 0)

\* the metrics the constructor sets up, an hour before midnight
MetricInit ==
  /\ apiKeys = ZeroApiKeys
  /\ errors = [errorKey \in {} |-> 0]
  /\ errorSeen = [errorKey \in {} |-> 0]
  /\ lastReset = NoReset
  /\ epochHour = FirstHour
  /\ metricRet = [seq |-> 0, reset |-> FALSE, callsThisHour |-> 0]

\* the service runs with NODE_ENV=production
MonInitAny == \E earlier \in {0, EarlierRequests} : MonInitOf(TRUE, earlier)

MonNext ==
  \/ \E found \in BOOLEAN : databaseStarts(found)
  \/ \E success \in BOOLEAN :
       /\ requests.total < MaxRequests +
            (IF requests.total >= EarlierRequests THEN EarlierRequests ELSE 0)
       /\ recordRequest(success, NoError)
  \/ \E reading \in MemoryReadings : checkMemory(reading[1], reading[2])
  \/ \E caller \in Pollers, clientAvailable \in BOOLEAN, queryThrows \in BOOLEAN,
        reading \in MemoryReadings :
       performHealthCheck_Start(caller, clientAvailable, queryThrows,
                                reading[1], reading[2])
  \/ \E caller \in Pollers, clientAvailable \in BOOLEAN, queryThrows \in BOOLEAN :
       performHealthCheck_Throws(caller, clientAvailable, queryThrows)
  \/ \E done \in SUBSET Pollers : \E last \in done, ok \in [done -> BOOLEAN] :
       checkRedis_Done(done, last, ok)
  \/ \E caller \in Pollers : performHealthCheck_Finish(caller)
  \/ health_Respond
  \/ \E unreadable \in BOOLEAN : readiness(unreadable)

(***************************************************************************)
(* The production configuration module.  process.env is a function from    *)
(* the variables that are set to their values; a value is modelled by its   *)
(* length, which is all the module looks at.                               *)
(***************************************************************************)
requiredEnvVars ==
  <<"JWT_SECRET", "ENCRYPTION_KEY", "WEB_SESSION_SECRET", "REDIS_HOST", "REDIS_PASSWORD">>

MinSecretLength == 32

\* !process.env[varName]: the variable is unset or empty
Missing(env, varName) == varName \notin DOMAIN env \/ env[varName] = 0

\* requiredEnvVars.filter(varName => !process.env[varName])
missingVars(env) ==
  SelectSeq(requiredEnvVars, LAMBDA varName : Missing(env, varName))

\* module.exports, the entries that validateConfig reads
ConfigOf(env) ==
  [jwtSecret |-> env["JWT_SECRET"], encryptionKey |-> env["ENCRYPTION_KEY"],
   sessionSecret |-> env["WEB_SESSION_SECRET"], redisHost |-> env["REDIS_HOST"],
   redisPassword |-> env["REDIS_PASSWORD"]]

validateConfig_HostOnly(config) ==
  IF config.redisHost = 0 THEN {"REDIS_HOST is required"} ELSE {}

\* validateConfig(config): the errors it collects
validateConfig(config) ==
  (IF config.jwtSecret < MinSecretLength
     THEN {"JWT_SECRET should be at least 32 characters long"} ELSE {})
  \cup (IF config.encryptionKey < MinSecretLength
          THEN {"ENCRYPTION_KEY should be at least 32 characters long"} ELSE {})
  \cup (IF config.redisHost = 0 THEN {"REDIS_HOST is required"} ELSE {})

NoConfig ==
  [jwtSecret |-> 0, encryptionKey |-> 0, sessionSecret |-> 0, redisHost |-> 0,
   redisPassword |-> 0]

\* require() of the module, up to module.exports: the required variables
config_RequireEnv ==
  /\ cfgCall.pc = "start"
  /\ cfgCall' =
       IF Len(missingVars(cfgCall.env)) > 0
         THEN [cfgCall EXCEPT !.pc = "exited", !.exitCode = 1]
         ELSE [cfgCall EXCEPT !.pc = "exported", !.config = ConfigOf(cfgCall.env)]
  /\ UNCHANGED <<coreVars, hashVars, limitVars, pathVars, sanVars, monVars, svcVars>>

\* validateConfig(module.exports) at the end of the module
config_Validate ==
  /\ cfgCall.pc = "exported"
  /\ cfgCall' =
       IF validateConfig(cfgCall.config) # {}
         THEN [cfgCall EXCEPT !.pc = "exited", !.exitCode = 1]
         ELSE [cfgCall EXCEPT !.pc = "loaded"]
  /\ UNCHANGED <<coreVars, hashVars, limitVars, pathVars, sanVars, monVars, svcVars>>

CfgNext == config_RequireEnv \/ config_Validate

\* the lengths tried for a value: empty, one short of a secret, a secret
EnvLengths == {0, 1, MinSecretLength - 1, MinSecretLength}
EnvNames == { requiredEnvVars[i] : i \in 1..Len(requiredEnvVars) }
Environments == UNION { [set -> EnvLengths] : set \in SUBSET EnvNames }

CfgInitOf(env) ==
  cfgCall = [env |-> env, pc |-> "start", exitCode |-> 0, config |-> NoConfig]

CfgInit == CfgInitOf([varName \in {} |-> 0])

\* the process starts in production mode with some environment
CfgInitAny == \E env \in Environments : CfgInitOf(env)

TimerInit ==
  /\ intervals = [task \in Tasks |-> NoTimer]
  /\ timers = [id \in {} |-> "health"]
  /\ starts = 0
  /\ stopped = FALSE

ListInit == keysRet = [path |-> "none", rows |-> {}]

\* the metrics, the timers and getAllApiKeys before any call
SvcInit == MetricInit /\ TimerInit /\ ListInit

UsageInit ==
  /\ db = FALSE
  /\ today = 0
  /\ credits \in UNION { [S -> {0, StartBalance}] : S \in SUBSET Users }
  /\ credits0 = credits
  /\ usage_logs = <<>>
  /\ usage_daily = [k \in {} |-> 0]
  /\ calls = [c \in CallIds |-> IdleFrame]
  /\ usageRet = [op |-> "none", path |-> "none", threw |-> FALSE]

\* the other operations, none of them called
QuietRest ==
  HashInit /\ LimitInit /\ PathInit /\ SanInit /\ MonInit /\ CfgInit /\ SvcInit

Init == UsageInit /\ AuthInit /\ KeyInit /\ CmpInit /\ QuietRest

\* the database as the specifications of SecurityUtils leave it
QuietDatabase == UsageInit /\ AuthInit /\ credits = [u \in Users |-> StartBalance]

UsageNext ==
  \/ \E found \in BOOLEAN : initialize(found)
  \/ AdvanceDay
  \/ \E c \in CallIds, data \in UsageInputs : recordUsage_NoDb(c, data)
  \/ \E c \in CallIds, data \in UsageInputs : recordUsage_Begin(c, data)
  \/ \E c \in CallIds, data \in UsageInputs : recordUsage_Throws(c, data)
  \/ \E c \in CallIds : recordUsage_Commit(c)
  \/ \E c \in CallIds : recordUsage_Rollback(c)

AuthNext ==
  \/ \E found \in BOOLEAN : initialize(found)
  \/ \E apiKey \in ApiKeys, throws \in BOOLEAN : validateApiKey(apiKey, throws)
  \/ \E fails \in BOOLEAN : RunImmediate(fails)
  \/ Tick

\* the usage path of DatabaseService
Spec == Init /\ [][UsageNext]_vars

\* the key path of DatabaseService
SpecAuth == Init /\ [][AuthNext]_vars

\* a call of SecurityUtils.isValidApiKeyFormat on any of the values tried
InitKey == QuietDatabase /\ KeyInitAny /\ CmpInit /\ QuietRest
SpecKey == InitKey /\ [][isValidApiKeyFormat_Call]_vars

\* a call of SecurityUtils.constantTimeCompare on any two of the values tried
InitCmp == QuietDatabase /\ KeyInit /\ CmpInitAny /\ QuietRest
SpecCmp == InitCmp /\ [][constantTimeCompare_Call]_vars

\* SecurityUtils and the database before any call
QuietCore == QuietDatabase /\ KeyInit /\ CmpInit

\* MonitoringService and the production configuration before any call
QuietService == MonInit /\ CfgInit /\ SvcInit

\* hashApiKey, then verifyApiKey or hashApiKey again, on any of the keys tried
InitHash == QuietCore /\ HashInitAny /\ LimitInit /\ PathInit /\ SanInit /\ QuietService
SpecHash == InitHash /\ [][HashNext]_vars

\* one RateLimiter and its callers
InitLimit == QuietCore /\ HashInit /\ LimitInit /\ PathInit /\ SanInit /\ QuietService
SpecLimit == InitLimit /\ [][LimitNext]_vars

\* a call of SecurityUtils.validatePath on any of the paths tried
InitPath == QuietCore /\ HashInit /\ LimitInit /\ PathInitAny /\ SanInit /\ QuietService
SpecPath == InitPath /\ [][validatePath_Call]_vars

\* a call of SecurityUtils.sanitizeInput on any of the values and options tried
InitSan == QuietCore /\ HashInit /\ LimitInit /\ PathInit /\ SanInitAny /\ QuietService
SpecSan == InitSan /\ [][sanitizeInput_Call]_vars

\* the utilities of SecurityUtils before any call
QuietUtils == HashInit /\ LimitInit /\ PathInit /\ SanInit

\* MonitoringService with its timers and the health router
InitMon == QuietCore /\ QuietUtils /\ MonInitAny /\ CfgInit /\ SvcInit
SpecMon == InitMon /\ [][MonNext]_vars

\* the request and key counters with the daily reset
MetricsNext ==
  \/ \E success \in BOOLEAN :
       requests.total < MaxCounted /\ recordRequest(success, NoError)
  \/ \E success \in BOOLEAN, cached \in BOOLEAN :
       /\ apiKeys.validated + apiKeys.failed < MaxCounted
       /\ recordApiKeyValidation(success, cached)
  \/ resetMetricsIfNeeded
  \/ HourPasses

InitMetrics == QuietCore /\ QuietUtils /\ QuietService
SpecMetrics == InitMetrics /\ [][MetricsNext]_vars

\* DatabaseService with or without its database, and the periodic health check
DegradeNext ==
  \/ \E found \in BOOLEAN : initialize(found)
  \/ \E apiKey \in DegradeKeys, throws \in BOOLEAN : validateApiKey(apiKey, throws)
  \/ \E fails \in BOOLEAN : RunImmediate(fails)
  \/ \E data \in DegradeInputs : recordUsage_NoDb(1, data)
  \/ \E data \in DegradeInputs : recordUsage_Begin(1, data)
  \/ \E data \in DegradeInputs : recordUsage_Throws(1, data)
  \/ recordUsage_Commit(1)
  \/ recordUsage_Rollback(1)
  \/ \E throws \in BOOLEAN : getAllApiKeys(throws)
  \/ \E clientAvailable \in BOOLEAN, queryThrows \in BOOLEAN :
       performHealthCheck_Start("timer", clientAvailable, queryThrows, 50, 50)
  \/ \E ok \in [{"timer"} -> BOOLEAN] : checkRedis_Done({"timer"}, "timer", ok)
  \/ performHealthCheck_Finish("timer")

InitDegrade == QuietCore /\ QuietUtils /\ QuietService
SpecDegrade == InitDegrade /\ [][DegradeNext]_vars

\* start() and stop() with the interval callbacks
TimersNext ==
  \/ \E clientAvailable \in BOOLEAN : start_Begin(clientAvailable, FALSE, 50, 50)
  \/ start_Resume
  \/ stop
  \/ \E id \in DOMAIN timers, clientAvailable \in BOOLEAN :
       interval_health(id, clientAvailable, FALSE, 50, 50)
  \/ \E id \in DOMAIN timers, reading \in MemoryReadings :
       interval_memory(id, reading[1], reading[2])
  \/ \E id \in DOMAIN timers : interval_cleanup(id)
  \/ \E done \in SUBSET {"start", "timer"} : \E last \in done, ok \in [done -> BOOLEAN] :
       checkRedis_Done(done, last, ok)
  \/ \E caller \in {"start", "timer"} : performHealthCheck_Finish(caller)

InitTimers == QuietCore /\ QuietUtils /\ QuietService
SpecTimers == InitTimers /\ [][TimersNext]_vars

\* the error counts with the memory check that cleans them
ErrorsNext ==
  \/ \E success \in BOOLEAN, error \in ErrorKeys \cup {NoError} :
       /\ requests.total < MaxCounted
       /\ recordRequest(success, error)
  \/ \E reading \in MemoryReadings : checkMemory(reading[1], reading[2])
  \/ HourPasses

InitErrors == QuietCore /\ QuietUtils /\ QuietService
SpecErrors == InitErrors /\ [][ErrorsNext]_vars

\* a load of the production configuration in any of the environments tried
InitCfg == QuietCore /\ QuietUtils /\ MonInit /\ CfgInitAny /\ SvcInit
SpecCfg == InitCfg /\ [][CfgNext]_vars

(***************************************************************************)
(* Properties of the usage path.                                           *)
(***************************************************************************)
RECURSIVE SumOver(_, _)
\* the sum of f[x] over the x in the finite set S
SumOver(S, f) ==
  IF S = {} THEN 0
  ELSE LET x == CHOOSE y \in S : TRUE IN f[x] + SumOver(S \ {x}, f)

\* the usage_logs rows (by position) of one user, and of one user on one day
RowsOfUser(u) == { i \in 1..Len(usage_logs) : usage_logs[i].user_id = u }
RowsOfKey(k) ==
  { i \in 1..Len(usage_logs) :
      usage_logs[i].user_id = k[1] /\ usage_logs[i].created_day = k[2] }
Column(col) == [i \in 1..Len(usage_logs) |-> usage_logs[i][col]]

\* a step that commits one recordUsage call, and the row it added
IsCommitStep == Len(usage_logs') = Len(usage_logs) + 1
CommittedRow == usage_logs'[Len(usage_logs')]
ClampedDiff(balance, cost) == IF balance >= cost THEN balance - cost ELSE 0

C1_BalanceNonNegative == \A u \in DOMAIN credits : credits[u] >= 0

C1_CommitSetsClampedBalance ==
  IsCommitStep =>
    LET u == CommittedRow.user_id IN
      u \in DOMAIN credits =>
        /\ u \in DOMAIN credits'
        /\ credits'[u] = ClampedDiff(credits[u], CommittedRow.cost)

\* C1: after any sequence of recordUsage calls with costs >= 0 every credits balance
\* is >= 0, and each committed call sets the balance of its user to
\* max(0, previous balance - cost).
C1_CreditsNeverNegative ==
  /\ []C1_BalanceNonNegative
  /\ [][C1_CommitSetsClampedBalance]_vars

\* a commit has clamped: the costs committed for a user exceed the starting balance
C1_Witness ==
  \E u \in DOMAIN credits :
    /\ credits[u] = 0
    /\ SumOver(RowsOfUser(u), Column("cost")) > credits0[u]

DailyGet(daily, k, f) == IF k \in DOMAIN daily THEN daily[k][f] ELSE 0

LogApplied == usage_logs' = Append(usage_logs, CommittedRow)

DailyApplied ==
  LET r == CommittedRow
      k == <<r.user_id, r.created_day>>
  IN /\ DOMAIN usage_daily' = DOMAIN usage_daily \cup {k}
     /\ \A j \in DOMAIN usage_daily \ {k} : usage_daily'[j] = usage_daily[j]
     /\ usage_daily'[k].total_input_tokens =
          DailyGet(usage_daily, k, "total_input_tokens") + r.input_tokens
     /\ usage_daily'[k].total_output_tokens =
          DailyGet(usage_daily, k, "total_output_tokens") + r.output_tokens
     /\ usage_daily'[k].total_cache_creation_tokens =
          DailyGet(usage_daily, k, "total_cache_creation_tokens") + r.cache_creation_tokens
     /\ usage_daily'[k].total_cache_read_tokens =
          DailyGet(usage_daily, k, "total_cache_read_tokens") + r.cache_read_tokens
     /\ usage_daily'[k].total_cost = DailyGet(usage_daily, k, "total_cost") + r.cost
     /\ usage_daily'[k].request_count = DailyGet(usage_daily, k, "request_count") + 1

\* the credit decrement of the committed row is applied, once
CreditDecremented ==
  LET u == CommittedRow.user_id IN
    /\ u \in DOMAIN credits
    /\ credits' = [credits EXCEPT ![u] = ClampedDiff(@, CommittedRow.cost)]

TablesUnchanged == UNCHANGED <<usage_logs, usage_daily, credits>>

C2_StepAsClaimed ==
  /\ usageRet'.path = "committed" =>
       IsCommitStep /\ LogApplied /\ DailyApplied /\ CreditDecremented
  /\ usageRet'.path # "committed" => TablesUnchanged
  /\ ~usageRet'.threw

C2_StepAmended ==
  /\ usageRet'.path = "committed" =>
       /\ IsCommitStep /\ LogApplied /\ DailyApplied
       /\ IF CommittedRow.user_id \in DOMAIN credits
            THEN CreditDecremented
            ELSE credits' = credits
  /\ usageRet'.path # "committed" => TablesUnchanged
  /\ ~usageRet'.threw

\* C2 as stated: a recordUsage call that succeeds applies the usage-log row, the
\* daily-rollup update and the credit decrement exactly once each; a call in which a
\* step fails changes none of usage_logs, usage_daily, credits, and no exception
\* reaches the caller.
C2_AllThreeOrNothing == [][C2_StepAsClaimed]_vars

\* C2 amended: a recordUsage call that succeeds applies the usage-log row and the
\* daily-rollup update exactly once each, and the credit decrement exactly once when
\* the user has a credits row (with no credits row no balance is written); a call in
\* which a step fails changes none of the three tables, and no exception reaches the
\* caller.
C2_AllOrNothing == [][C2_StepAmended]_vars

\* a call has committed for a user without a credits row
C2_Witness ==
  /\ usageRet.path = "committed"
  /\ usage_logs # <<>>
  /\ usage_logs[Len(usage_logs)].user_id \notin DOMAIN credits

\* the counts the caller reported: the fields present in usageData
ReportedTotal(data) == SumOver(CountFields \cap DOMAIN data, data)

C5_RowTotalIsSumOfColumns ==
  \A i \in 1..Len(usage_logs) :
    LET r == usage_logs[i] IN
      r.total_tokens =
        r.input_tokens + r.output_tokens + r.cache_creation_tokens + r.cache_read_tokens

C5_CommitStoresReportedTotal ==
  \A c \in CallIds :
    (calls[c].pc = "read" /\ calls'[c].pc = "idle" /\ IsCommitStep) =>
      /\ CommittedRow.total_tokens = ReportedTotal(calls[c].data)
      /\ CommittedRow.input_tokens = FieldOr(calls[c].data, "inputTokens", 0)
      /\ CommittedRow.cache_read_tokens = FieldOr(calls[c].data, "cacheReadTokens", 0)

\* C5: every usage_logs row recordUsage writes has total_tokens = input + output +
\* cacheCreation + cacheRead, a count missing from usageData counting as 0: the
\* committed total is the sum of the reported counts.
C5_TotalTokens ==
  /\ []C5_RowTotalIsSumOfColumns
  /\ [][C5_CommitStoresReportedTotal]_vars

\* a row committed from usageData that reports some counts and omits inputTokens
C5_Witness ==
  \E i \in 1..Len(usage_logs) :
    usage_logs[i].total_tokens > 0 /\ usage_logs[i].input_tokens = 0

DailyKeysOfLogs ==
  { <<usage_logs[i].user_id, usage_logs[i].created_day>> : i \in 1..Len(usage_logs) }

C6_DailyMatchesLogs ==
  /\ DOMAIN usage_daily = DailyKeysOfLogs
  /\ \A k \in DOMAIN usage_daily :
       /\ usage_daily[k].total_input_tokens = SumOver(RowsOfKey(k), Column("input_tokens"))
       /\ usage_daily[k].total_output_tokens =
            SumOver(RowsOfKey(k), Column("output_tokens"))
       /\ usage_daily[k].total_cache_creation_tokens =
            SumOver(RowsOfKey(k), Column("cache_creation_tokens"))
       /\ usage_daily[k].total_cache_read_tokens =
            SumOver(RowsOfKey(k), Column("cache_read_tokens"))
       /\ usage_daily[k].total_cost = SumOver(RowsOfKey(k), Column("cost"))
       /\ usage_daily[k].request_count = Cardinality(RowsOfKey(k))

C6_DailyMonotone ==
  \A k \in DOMAIN usage_daily :
    /\ k \in DOMAIN usage_daily'
    /\ \A f \in DOMAIN usage_daily[k] : usage_daily'[k][f] >= usage_daily[k][f]

\* C6: for every (user, date) the usage_daily row's token totals and cost total are
\* the sums over the usage_logs rows committed for that user on that date, its
\* request_count is the number of those rows, and no daily counter ever decreases.
C6_DailyRollup ==
  /\ []C6_DailyMatchesLogs
  /\ [][C6_DailyMonotone]_vars

\* two calls were committed for the same user on the same day
C6_Witness == \E k \in DOMAIN usage_daily : usage_daily[k].request_count = 2

C8_BalanceIsStartMinusCosts ==
  \A u \in DOMAIN credits :
    credits[u] = ClampedDiff(credits0[u], SumOver(RowsOfUser(u), Column("cost")))

C8_ReadWriteNotSeparated ==
  \A c \in CallIds :
    (calls[c].pc = "read" /\ calls'[c].pc = "read") => credits' = credits

\* C8: for any interleaving of recordUsage calls of concurrent callers, no decrement
\* is lost: between a call's read of the balance and its write no other call writes
\* the credits table, and every balance is max(0, starting balance - sum of the costs
\* of the committed calls of that user), whatever the order of the calls.
C8_NoLostDecrement ==
  /\ []C8_BalanceIsStartMinusCosts
  /\ [][C8_ReadWriteNotSeparated]_vars

\* two calls with a positive cost were committed for one user with a credits row
C8_Witness ==
  \E u \in DOMAIN credits :
    /\ Cardinality({ i \in RowsOfUser(u) : usage_logs[i].cost > 0 }) >= 2
    /\ Len(usage_logs) >= 2

(***************************************************************************)
(* Properties of the key path.                                             *)
(***************************************************************************)
\* the tokens rows whose stored hash is the SHA-256 of a plaintext key
StoredFor(apiKey) == { t \in TokensTable : t.token = Sha256(apiKey) }

\* C3: with the database open and the lookup answering, validateApiKey(plaintext)
\* returns, for a key whose SHA-256 hash is stored in tokens, the record of exactly
\* that token (id 'db_' + token id, with its user), and null for any other plaintext.
C3_ValidateFindsExactlyStoredKeys ==
  authRet.path \in {"hit", "miss"} =>
    IF StoredFor(authRet.key) = {}
      THEN authRet.result = NoRecord
      ELSE /\ Cardinality(StoredFor(authRet.key)) = 1
           /\ authRet.result.found
           /\ \A t \in StoredFor(authRet.key) :
                /\ authRet.result.id = <<"db_", t.id>>
                /\ authRet.result.userId = t.user_id
                /\ authRet.result.name = t.name
                /\ authRet.result.userEmail = UsersTable[t.user_id].email
                /\ authRet.result.userName = UsersTable[t.user_id].name

\* the key of token 12 was validated and token 12's record came back
C3_Witness ==
  /\ authRet.path = "hit"
  /\ authRet.key = 2
  /\ authRet.result.found
  /\ authRet.result.id = <<"db_", 12>>

IsValidateStep == authRet'.seq # authRet.seq

C4_Step ==
  /\ IsValidateStep =>
       IF authRet'.result.found
         THEN \E t \in TokenIds :
                /\ authRet'.result.id = <<"db_", t>>
                /\ authRet'.result.lastUsed = last_used[t]
                /\ immediates' = Append(immediates, t)
                /\ last_used' = last_used
         ELSE UNCHANGED <<immediates, last_used, credits, usage_logs, usage_daily>>
  /\ ~IsValidateStep =>
       /\ authRet' = authRet
       /\ \/ UNCHANGED <<immediates, last_used>>
          \/ /\ immediates # <<>>
             /\ immediates' = Tail(immediates)
             /\ \/ last_used' = last_used
                \/ last_used' = [last_used EXCEPT ![Head(immediates)] = now]

\* C4: a successful validateApiKey returns before last_used is updated: the call
\* only schedules the update of its token, the update runs in a later step, once per
\* successful validation, and whether it succeeds or fails the returned result stays
\* as it was; a validation that misses schedules nothing and changes no stored state.
C4_LastUsedFireAndForget == [][C4_Step]_vars

\* a validation returned a record with last_used still NULL, and the scheduled
\* update has since written last_used
C4_Witness ==
  /\ authRet.result.found
  /\ authRet.result.lastUsed = Never
  /\ immediates = <<>>
  /\ \E t \in TokenIds : authRet.result.id = <<"db_", t>> /\ last_used[t] # Never

\* the key is marked: disabled, or carrying an overdrawn mark
Flagged(record) ==
  \/ ~record.active
  \/ ("overdrawn" \in DOMAIN record /\ record["overdrawn"] = TRUE)

\* C7: whenever a usage commit clamps the credit balance at zero (the committed costs
\* exceed the balance there was), the keys of that user are marked overdrawn or
\* disabled.
C7_OverdrawIsFlagged ==
  \A u \in DOMAIN credits :
    SumOver(RowsOfUser(u), Column("cost")) > credits0[u] =>
      \A t \in { x \in TokensTable : x.user_id = u } :
        \A tokenInfo \in getTokenByHash(t.token) : Flagged(RelayFormat(tokenInfo))

(***************************************************************************)
(* Properties of SecurityUtils.                                            *)
(***************************************************************************)
\* ^(sk_|cr_|pk_)[A-Za-z0-9_]{17,253}$
MatchesKeyPattern(chars) ==
  \E n \in 17..253 :
    /\ Len(chars) = 3 + n
    /\ SubSeq(chars, 1, 3) \in { <<115, 107, 95>>, <<99, 114, 95>>, <<112, 107, 95>> }
    /\ \A i \in 4..(3 + n) :
         \/ (chars[i] >= 65 /\ chars[i] <= 90)
         \/ (chars[i] >= 97 /\ chars[i] <= 122)
         \/ (chars[i] >= 48 /\ chars[i] <= 57)
         \/ chars[i] = 95

\* C9: isValidApiKeyFormat(s) is true exactly for the strings matching
\* ^(sk_|cr_|pk_)[A-Za-z0-9_]{17,253}$ and false for every other value, non-strings,
\* the empty string and a bare prefix included.
C9_FormatIsKeyPattern ==
  keyCall.done =>
    (keyCall.ret <=> (keyCall.arg.type = "string" /\ MatchesKeyPattern(keyCall.arg.chars)))

\* a key of the greatest length, 256, was accepted
C9_Witness == keyCall.done /\ keyCall.ret /\ Len(keyCall.arg.chars) = 256

\* the string of n letters 'a'
Letters(n) == Str([i \in 1..n |-> 97])

\* C10: for two strings of equal byte length constantTimeCompare takes the same
\* sequence of steps whatever the strings hold and wherever they first differ: the
\* steps are those of comparing two equal strings of that length.
C10_StepsDependOnLengthOnly ==
  (cmpCall.done /\ SameLengthStrings(cmpCall.a, cmpCall.b)) =>
    LET n == ByteLength(cmpCall.a.chars) IN
      cmpCall.steps = constantTimeCompare(Letters(n), Letters(n)).steps

\* two strings of one byte length that differ in their first byte were compared
C10_Witness ==
  /\ cmpCall.done
  /\ SameLengthStrings(cmpCall.a, cmpCall.b)
  /\ ByteLength(cmpCall.a.chars) >= 3
  /\ Utf8(cmpCall.a.chars)[1] # Utf8(cmpCall.b.chars)[1]
  /\ ~cmpCall.ret

\* C11: constantTimeCompare(a, b) returns true exactly when a and b are both
\* strings with identical content (the same code units), and false otherwise.
C11_TrueIffIdenticalStrings ==
  cmpCall.done =>
    (cmpCall.ret <=>
       (cmpCall.a.type = "string" /\ cmpCall.b.type = "string"
          /\ cmpCall.a.chars = cmpCall.b.chars))

(***************************************************************************)
(* Properties of hashApiKey / verifyApiKey.                                *)
(***************************************************************************)
\* verifyApiKey accepts the key that was hashed and no other key
C12_VerifyAcceptsOnlyTheKey ==
  hashCall.pc = "verified" => (hashCall.ret <=> hashCall.candidate = hashCall.key)

\* hashing again with the salt that was returned gives the same hash and salt
C12_SameSaltSameHash ==
  hashCall.pc = "rehashed" => hashCall.again = hashCall.stored

\* a non-empty salt given by the caller is the salt returned
C12_GivenSaltReturned ==
  (hashCall.pc # "start" /\ ~Falsy(hashCall.given)) => hashCall.stored.salt = hashCall.given

IsCheckStep(identifier) ==
  clock' = clock /\ limitRet'.op = "check" /\ limitRet'.id = identifier

\* this step is a call of check, recordAttempt or reset on the identifier
IsLimiterStep(identifier) == clock' = clock /\ limitRet'.id = identifier

\* the timestamps stored for the identifier that lie in the window
StoredInWindow(identifier) ==
  IF identifier \in DOMAIN attempts
    THEN Newer(attempts[identifier], clock, windowMs) ELSE <<>>

\* a caller keeping the discipline never has more than maxAttempts in the window
C13_CountWithinLimit ==
  \A identifier \in Identifiers :
    limitHist[identifier].discipline # "broken" =>
      Len(StoredInWindow(identifier)) <= maxAttempts

\* with k attempts granted in the last windowMs, check allows the next one and
\* reports maxAttempts - k while k < maxAttempts, and blocks it otherwise
C13_CheckStep ==
  \A identifier \in Identifiers :
    (IsCheckStep(identifier) /\ limitHist[identifier].discipline # "broken") =>
      LET k == Len(Newer(limitHist[identifier].granted, clock, windowMs))
          result == limitRet'.result
      IN IF k < maxAttempts
           THEN ~result.limited /\ result.remainingAttempts = maxAttempts - k
           ELSE result.limited /\ result.remainingAttempts = 0

\* C13: for a caller that checks before each attempt and records an attempt only
\* after limited=false, exactly the first maxAttempts attempts within windowMs are
\* allowed, the k-th seeing remainingAttempts = maxAttempts - (k - 1); every
\* further one is blocked with remainingAttempts = 0, and the stored in-window
\* count never exceeds maxAttempts.
C13_FirstMaxAttemptsAllowed == [](C13_CountWithinLimit) /\ [][C13_CheckStep]_vars

\* a disciplined caller was blocked after maxAttempts granted attempts
C13_Witness ==
  /\ limitRet.op = "check"
  /\ limitRet.result.limited
  /\ limitHist[limitRet.id].discipline = "idle"
  /\ Len(limitHist[limitRet.id].granted) = maxAttempts

\* C14: after check reported limited=true for an identifier, every check of it
\* before the reported reset time (oldest attempt + windowMs *
\* backoffMultiplier^(n - maxAttempts)), with no reset and no new attempt in
\* between, reports limited=true as well.
C14_LimitedUntilResetTime ==
  [][\A identifier \in Identifiers :
       (IsCheckStep(identifier) /\ clock < limitHist[identifier].until) =>
         limitRet'.result.limited]_vars

\* reset leaves the identifier as one never seen
C15_ResetStep ==
  \A identifier \in Identifiers :
    /\ (IsLimiterStep(identifier) /\ limitRet'.op = "reset") =>
         CheckReport(attempts', identifier, clock') = NotLimited(maxAttempts)
    /\ (IsCheckStep(identifier) /\ limitHist[identifier].cleared # "no") =>
         limitRet'.result = NotLimited(maxAttempts)

\* an operation on one identifier leaves the report of every other one as it was
C15_FrameStep ==
  \A identifier \in Identifiers :
    \A other \in Identifiers \ {identifier} :
      IsLimiterStep(identifier) =>
        CheckReport(attempts', other, clock') = CheckReport(attempts, other, clock)

\* C15: after reset(id) the next check(id) reports limited=false with
\* remainingAttempts = maxAttempts, however many attempts had been recorded; and
\* no check, recordAttempt or reset of one identifier changes what check reports
\* for another identifier.
C15_ResetClearsOnlyItsIdentifier == [][C15_ResetStep /\ C15_FrameStep]_vars

\* an identifier that had maxAttempts attempts or more was reset and checked, while
\* the other identifier stayed limited
C15_Witness ==
  /\ limitRet.op = "check"
  /\ limitHist[limitRet.id].cleared = "all"
  /\ \E other \in Identifiers \ {limitRet.id} :
       CheckReport(attempts, other, clock).limited

(***************************************************************************)
(* Properties of validatePath and sanitizeInput.                           *)
(***************************************************************************)
\* the directories of inner start with the directories of outer, in order
IsInside(inner, outer) ==
  Len(inner) >= Len(outer) /\ SubSeq(inner, 1, Len(outer)) = outer

\* C16: validatePath returns a path only when the resolved path is the base
\* directory or lies inside it; a path that resolves outside it, an empty path
\* and a value that is not a string give null.
C16_ReturnsOnlyPathsInsideBase ==
  pathCall.done =>
    (pathCall.ret # Null =>
       /\ pathCall.path.type = "string"
       /\ pathCall.path.chars # <<>>
       /\ IsInside(ResolvedSegments(pathCall.basePath.chars, pathCall.path.chars),
                   ResolvedSegments(pathCall.basePath.chars, <<>>)))

\* C17: whatever the input and the options, the string sanitizeInput returns is
\* no longer than maxLength (1000 when none is given), and a value that is not a
\* string gives the empty string.
C17_NeverLongerThanMaxLength ==
  sanCall.done =>
    /\ Len(sanCall.ret.chars) <= MaxLengthOf(sanCall.options)
    /\ sanCall.input.type # "string" => sanCall.ret = Str(<<>>)

(***************************************************************************)
(* Properties of the health router.                                        *)
(***************************************************************************)
\* C18: GET /readiness answers 200 with ready=true exactly when the Redis check
\* that completed last succeeded, and 503 with ready=false otherwise: also when
\* no Redis check has completed yet and when reading the health state throws.
C18_ReadyIffLastRedisCheckSucceeded ==
  httpRet.route = "/readiness" =>
    /\ httpRet.status \in {200, 503}
    /\ httpRet.status = 200 <=> (httpRet.lastRedis = "ok" /\ ~httpRet.threw)
    /\ httpRet.body = (IF httpRet.status = 200 THEN "ready" ELSE "not ready")

\* /readiness answered 200 while the last health check had ended unhealthy and
\* another one was still waiting for Redis
C18_Witness ==
  /\ httpRet.route = "/readiness"
  /\ httpRet.status = 200
  /\ \E caller \in Callers : runs[caller].pc = "pinging"
  /\ ~healthStatus.healthy

\* C19: GET /health answers 200 'healthy' exactly when all four checks of the run
\* it started passed (Redis reachable, database healthy or not configured,
\* memory below its thresholds, failure rate below 10% or no requests), and 503
\* otherwise, also when the check throws.
C19_HealthyIffOwnChecksPassed ==
  httpRet.route = "/health" =>
    /\ httpRet.status \in {200, 503}
    /\ httpRet.status = 200 <=> (httpRet.passed /\ ~httpRet.threw)
    /\ httpRet.status = 200 <=> httpRet.body = "healthy"

\* the five variables are set to non-empty values and the two secrets are long
C20_EnvironmentAccepted ==
  /\ \A varName \in EnvNames :
        varName \in DOMAIN cfgCall.env /\ cfgCall.env[varName] > 0
  /\ cfgCall.env["JWT_SECRET"] >= MinSecretLength
  /\ cfgCall.env["ENCRYPTION_KEY"] >= MinSecretLength

\* C20: loading the production configuration ends the process with exit code 1
\* unless JWT_SECRET, ENCRYPTION_KEY, WEB_SESSION_SECRET, REDIS_HOST and
\* REDIS_PASSWORD are all set and non-empty and JWT_SECRET and ENCRYPTION_KEY are
\* each at least 32 long; the load completes only when all of these hold, and a
\* load in an environment without them never gets past its two validations.
C20_ExitsUnlessEnvironmentAccepted ==
  /\ cfgCall.pc = "exited" => (cfgCall.exitCode = 1 /\ ~C20_EnvironmentAccepted)
  /\ cfgCall.pc = "loaded" =>
        /\ C20_EnvironmentAccepted
        /\ cfgCall.exitCode = 0
        /\ cfgCall.config = ConfigOf(cfgCall.env)
  /\ cfgCall.pc = "exported" => Len(missingVars(cfgCall.env)) = 0

\* the process exited with all five variables set, JWT_SECRET one short of 32
C20_Witness ==
  /\ cfgCall.pc = "exited"
  /\ cfgCall.exitCode = 1
  /\ \A varName \in EnvNames :
        varName \in DOMAIN cfgCall.env /\ cfgCall.env[varName] > 0
  /\ cfgCall.env["JWT_SECRET"] = MinSecretLength - 1
  /\ cfgCall.env["ENCRYPTION_KEY"] >= MinSecretLength

\* C21: the dailyCostLimit that validateApiKey infers from the credit balance does
\* not decrease when the balance grows: of two records returned one after the other,
\* the one with the smaller balance (zero or no credits row included) never has the
\* larger limit, and a record without credits has no positive limit.
C21_Step ==
  (IsValidateStep /\ authRet'.result.found) =>
    /\ (authRet'.result.creditsBalance = 0 => authRet'.result.dailyCostLimit <= 0)
    /\ (authRet.result.found /\ credits' = credits) =>
         /\ authRet.result.creditsBalance <= authRet'.result.creditsBalance =>
              authRet.result.dailyCostLimit <= authRet'.result.dailyCostLimit
         /\ authRet'.result.creditsBalance <= authRet.result.creditsBalance =>
              authRet'.result.dailyCostLimit <= authRet.result.dailyCostLimit

C21_DailyCostLimitMonotone == [][C21_Step]_vars

\* C22: whenever no health check is in progress, healthStatus.healthy is true only
\* if the entries of redis, database, memory and api are all marked healthy, with
\* the periodic check, the checks of GET /health and the memory check interleaved.
C22_HealthyOnlyIfEveryServiceHealthy ==
  (\A caller \in Callers : runs[caller].pc = "idle") =>
    (healthStatus.healthy =>
       /\ healthStatus.redis
       /\ healthStatus.database
       /\ healthStatus.memory
       /\ healthStatus.api)

\* what a check of the identifier reports, against the attempts stored before it
C23_CheckStep ==
  \A identifier \in Identifiers :
    IsCheckStep(identifier) =>
      LET result == limitRet'.result IN
        /\ result.limited <=> Len(StoredInWindow(identifier)) >= maxAttempts
        /\ result.remainingAttempts \in 0..maxAttempts
        /\ ~result.limited => result.remainingAttempts > 0
        /\ result.limited => result.remainingAttempts = 0

LastAttempt(identifier) ==
  IF identifier \in DOMAIN attempts /\ attempts[identifier] # <<>>
    THEN attempts[identifier][Len(attempts[identifier])]
    ELSE 0 - windowMs

C24_CheckStep ==
  \A identifier \in Identifiers :
    (IsCheckStep(identifier) /\ clock >= LastAttempt(identifier) + windowMs) =>
      limitRet'.result = NotLimited(maxAttempts)

C25_CleanupKeepsRecentErrors ==
  [][requests' = requests =>
       \A errorKey \in DOMAIN errors :
         errorSeen[errorKey] >= epochHour - 1 =>
           (errorKey \in DOMAIN errors' /\ errors'[errorKey] = errors[errorKey])]_vars

C28_CountersAddUp ==
  /\ requests.total = requests.success + requests.failed
  /\ apiKeys.cached <= apiKeys.validated

C28_RecordStep ==
  requests'.total > requests.total =>
    /\ requests'.total = requests.total + 1
    /\ \/ /\ requests'.success = requests.success + 1
          /\ requests'.failed = requests.failed
       \/ /\ requests'.success = requests.success
          /\ requests'.failed = requests.failed + 1

\* C28: after any sequence of recordRequest, recordApiKeyValidation and daily
\* resets, requests.total = requests.success + requests.failed and apiKeys.cached
\* <= apiKeys.validated; each recordRequest raises total by exactly 1 and exactly
\* one of success and failed by 1.
C28_CountersConsistent == [](C28_CountersAddUp) /\ [][C28_RecordStep]_vars

\* after a daily reset a failed request and a cached validation were counted
C28_Witness ==
  /\ lastReset # NoReset
  /\ requests = [total |-> 1, success |-> 0, failed |-> 1]
  /\ apiKeys.cached = 1

IsResetCall == metricRet'.seq # metricRet.seq

C29_Step ==
  /\ IsResetCall =>
       IF LocalHour(epochHour) # 0
         THEN /\ lastReset' = NoReset
              /\ UNCHANGED <<requests, apiKeys>>
              /\ ~metricRet'.reset
         ELSE IF metricRet.callsThisHour = 0 /\ lastReset = NoReset
           THEN /\ requests' = ZeroRequests
                /\ apiKeys' = ZeroApiKeys
                /\ lastReset' = DayOf(epochHour)
                /\ metricRet'.reset
           ELSE /\ UNCHANGED <<requests, apiKeys, lastReset>>
                /\ ~metricRet'.reset
  /\ ~IsResetCall =>
       /\ lastReset' = lastReset
       /\ requests'.total >= requests.total
       /\ apiKeys'.validated >= apiKeys.validated
       /\ apiKeys'.failed >= apiKeys.failed

\* a reset is followed by no other reset in the same hour
C29_ResetOnlyByFirstCall ==
  (metricRet.callsThisHour = 2 /\ LocalHour(epochHour) = 0) =>
    (~metricRet.reset /\ lastReset # NoReset)

\* C29: the daily reset happens at most once per midnight hour: of the
\* resetMetricsIfNeeded calls made while the local hour is 0 on one day only the
\* first resets the request and key counters, later calls in that hour leave them
\* unchanged, and the reset is armed again only by a call at an hour that is not 0.
C29_ResetOncePerMidnight == [](C29_ResetOnlyByFirstCall) /\ [][C29_Step]_vars

\* on the second midnight the counters were reset again, a request was counted,
\* and a second call in that hour left it counted
C29_Witness ==
  /\ epochHour = FirstHour + 25
  /\ lastReset = DayOf(epochHour)
  /\ metricRet.callsThisHour = 2
  /\ requests.total > 0

\* C26: after stop() has returned, and until start() is called again, no interval
\* timer of the health check, the memory check or the cleanup is still set, so none
\* of these tasks runs again, whatever start() and stop() calls came before (start()
\* called more than once included).
C26_NoTimerAfterStop == stopped => DOMAIN timers = {}

(***************************************************************************)
(* The database service without its database, or with failing queries.     *)
(***************************************************************************)
\* a recordUsage call returned in this step
IsRecordUsageReturn ==
  usageRet'.op = "recordUsage" /\ (usageRet' # usageRet \/ calls' # calls)

C27_Step ==
  /\ (IsValidateStep /\ (~db \/ authRet'.path = "caught")) =>
       /\ authRet'.result = NoRecord
       /\ UNCHANGED <<immediates, last_used>>
  /\ (~db /\ ~db') => UNCHANGED <<credits, usage_logs, usage_daily>>
  /\ (IsRecordUsageReturn /\ (~db \/ usageRet'.path = "caught")) =>
       /\ UNCHANGED <<credits, usage_logs, usage_daily>>
       /\ ~usageRet'.threw
  /\ (keysRet' # keysRet /\ (~db \/ keysRet'.path = "caught")) => keysRet'.rows = {}
  /\ \A caller \in Callers :
       (~db /\ runs[caller].pc = "idle" /\ runs'[caller].pc = "pinging") =>
         /\ healthStatus'.database
         /\ runs'[caller].passed = (healthStatus'.memory /\ healthStatus'.api)

\* a health check that found every service but the database healthy ends healthy
\* when there is no database
C27_HealthyWithoutDatabase ==
  (~db /\ redisDone = "ok" /\ runs["timer"].pc = "idle"
       /\ healthStatus.redis /\ healthStatus.memory /\ healthStatus.api) =>
    (healthStatus.healthy /\ healthStatus.database)

\* C27: when the SQLite database is not initialised or a query fails, the database
\* service degrades without raising: validateApiKey returns null, recordUsage
\* changes nothing, getAllApiKeys returns an empty list, and a database that is not
\* configured is reported healthy by the health check, so that it never makes the
\* aggregate health unhealthy.
C27_DegradesWithoutRaising == [](C27_HealthyWithoutDatabase) /\ [][C27_Step]_vars

\* without a database all three calls have returned and a health check ended healthy
C27_Witness ==
  /\ ~db
  /\ authRet.path = "no-db"
  /\ usageRet.path = "no-db"
  /\ keysRet.path = "no-db"
  /\ redisDone = "ok"
  /\ runs["timer"].pc = "idle"
  /\ healthStatus.healthy /\ healthStatus.database

====
